---- MODULE Spec2Model ----
(***************************************************************************)
(* Visual regression testing tool: the comparison engine                   *)
(* (image_comparison.py), the capture engine (browser_automation.py) and   *)
(* the orchestration loop (app.py: run_tests, run_single_test).            *)
(***************************************************************************)
EXTENDS Integers, Sequences, FiniteSets, TLC

(***************************************************************************)
(* Bounds of the model.                                                    *)
(***************************************************************************)
\* largest image side drawn as an input (the smallest is WinSize - 1)
MaxSide == 8

(***************************************************************************)
(* Rationals <<num, den>> with den > 0: the model of the float scores.     *)
(***************************************************************************)
RECURSIVE GCD(_, _)
GCD(a, b) == IF b = 0 THEN a ELSE GCD(b, a % b)

Rat(n, d) == [num |-> n, den |-> d]

\* a >= b, cross-multiplied after cancelling the common factor of the denominators
RatGE(a, b) ==
    LET g == GCD(a.den, b.den)
    IN  a.num * (b.den \div g) >= b.num * (a.den \div g)

\* r * k
RatTimes(r, k) ==
    LET g == GCD(r.den, k)
    IN  Rat(r.num * (k \div g), r.den \div g)

(***************************************************************************)
(* Images: PIL images as [mode, w, h, px], px a function of <<x, y>>.      *)
(***************************************************************************)
White == <<255, 255, 255>>
Black == <<0, 0, 0>>
Red   == <<255, 0, 0>>
Sand  == <<200, 100, 50>>
Teal  == <<17, 128, 254>>
Yellow == <<255, 255, 0>>

Channels(mode) == IF mode = "RGBA" THEN 4 ELSE 3

Coords(w, h) == (0 .. w - 1) \X (0 .. h - 1)

\* Image.new(mode, (w, h), colour)
NewImage(mode, w, h, colour) ==
    [mode |-> mode, w |-> w, h |-> h,
     px |-> [c \in Coords(w, h) |->
                IF mode = "RGBA" THEN colour \o <<255>> ELSE colour]]

\* the pixel conversion Image.paste applies when the modes differ
ConvertPixel(from, to, p) ==
    IF from = to THEN p
    ELSE IF to = "RGB" THEN SubSeq(p, 1, 3)
    ELSE p \o <<255>>

\* canvas.paste(img, (0, 0))
Paste(canvas, img) ==
    [canvas EXCEPT !.px =
        [c \in Coords(canvas.w, canvas.h) |->
            IF c[1] < img.w /\ c[2] < img.h
            THEN ConvertPixel(img.mode, canvas.mode, img.px[c])
            ELSE canvas.px[c]]]

Max2(a, b) == IF a >= b THEN a ELSE b

\* a padding that fills the canvas with black instead of white
PadToBlack(img, tw, th) ==
    IF <<img.w, img.h>> # <<tw, th>>
    THEN Paste(NewImage("RGB", tw, th, Black), img)
    ELSE img

\* one branch of resize_images_to_match: pad unless the size is the target
PadTo(img, tw, th) ==
    IF <<img.w, img.h>> # <<tw, th>>
    THEN Paste(NewImage("RGB", tw, th, White), img)
    ELSE img

\* ImageComparator.resize_images_to_match
ResizeImagesToMatch(image1, image2) ==
    LET tw == Max2(image1.w, image2.w)
        th == Max2(image1.h, image2.h)
    IN  <<PadTo(image1, tw, th), PadTo(image2, tw, th)>>

(***************************************************************************)
(* Similarity metrics.                                                     *)
(***************************************************************************)
\* window side of skimage's structural_similarity (its default win_size)
WinSize == 7

\* default_threshold of ImageComparator
DefaultThreshold == 95

Abs(x) == IF x < 0 THEN -x ELSE x

\* np.array(image).shape
Shape(img) == <<img.h, img.w, Channels(img.mode)>>

\* cv2.cvtColor(.., COLOR_RGB2GRAY) of one pixel (8-bit fixed point, the
\* alpha channel of a 4-channel pixel is ignored)
Gray(p) == (4899 * p[1] + 9617 * p[2] + 1868 * p[3] + 8192) \div 16384

GrayImage(img) == [c \in Coords(img.w, img.h) |-> Gray(img.px[c])]

SetMax(S) == CHOOSE m \in S : \A x \in S : x <= m
SetMin(S) == CHOOSE m \in S : \A x \in S : m <= x

\* gray1.max() - gray1.min()
DataRange(g) ==
    LET V == {g[c] : c \in DOMAIN g} IN SetMax(V) - SetMin(V)

\* a metric value: a number in 1/1000, NaN, or a raised exception
Num(v)  == [kind |-> "num", v |-> v]
NaNVal  == [kind |-> "nan", v |-> 0]
Raised  == [kind |-> "raise", v |-> 0]

\* structural_similarity(gray1, gray2, data_range=...):
\*   an image side below the window raises ValueError;
\*   for identical arrays every window gives (A1*A2)/(B1*B2) with A1 = B1 and
\*   A2 = B2, which is 1 unless data_range = 0 makes C1 = C2 = 0 and the
\*   variance-free windows 0/0 = NaN;
\*   for different arrays the value is the input `so`.
Ssim(img1, img2, so) ==
    LET g1 == GrayImage(img1)
        g2 == GrayImage(img2)
    IN  IF img1.w < WinSize \/ img1.h < WinSize THEN Raised
        ELSE IF g1 = g2 THEN (IF DataRange(g1) = 0 THEN NaNVal ELSE Num(1000))
        ELSE so

\* Python's max(0, v): a NaN never compares greater, so 0 is kept
FloorZero(s) == IF s.kind = "nan" THEN 0 ELSE IF s.v > 0 THEN s.v ELSE 0

PixelAbsDiff(p, q) ==
    LET d[k \in 0 .. Len(p)] ==
            IF k = 0 THEN 0 ELSE d[k - 1] + Abs(p[k] - q[k])
    IN  d[Len(p)]

\* sum of np.abs(img1_np.astype(float) - img2_np.astype(float))
SumAbsDiff(img1, img2) ==
    LET n == img1.w * img1.h
        at(i) == <<i % img1.w, i \div img1.w>>
        d[i \in 0 .. n] ==
            IF i = 0 THEN 0
            ELSE d[i - 1] + PixelAbsDiff(img1.px[at(i - 1)], img2.px[at(i - 1)])
    IN  d[n]

\* calculate_histogram_similarity, in 1/1000: the correlation of a histogram
\* with itself is 1; otherwise the floored mean correlation is the input `ho`
HistogramSimilarity(img1, img2, ho) ==
    IF img1.px = img2.px THEN 1000 ELSE ho

\* ImageComparator.calculate_similarity_metrics
CalculateSimilarityMetrics(img1, img2, so, ho) ==
    LET m == img1.w * img1.h * Channels(img1.mode)
        s == IF Shape(img1) # Shape(img2) THEN Raised ELSE Ssim(img1, img2, so)
    IN  IF s.kind = "raise"
        THEN [raise |-> TRUE, ssim |-> Rat(0, 1), pixel_similarity |-> Rat(0, 1),
              histogram_similarity |-> Rat(0, 1)]
        ELSE [raise |-> FALSE,
              ssim |-> Rat(FloorZero(s), 1000),
              pixel_similarity |->
                  Rat(255 * m - SumAbsDiff(img1, img2), 255 * m),
              histogram_similarity |->
                  Rat(HistogramSimilarity(img1, img2, ho), 1000)]

\* a + b over the least common denominator
RatAdd(a, b) ==
    LET g == GCD(a.den, b.den)
    IN  Rat(a.num * (b.den \div g) + b.num * (a.den \div g),
            a.den * (b.den \div g))

\* np.mean of the three metrics
MeanOfThree(a, b, c) ==
    LET sum == RatAdd(RatAdd(a, b), c) IN Rat(sum.num, 3 * sum.den)

(***************************************************************************)
(* Difference image.                                                       *)
(***************************************************************************)
NoImage == [mode |-> "none", w |-> 0, h |-> 0, px |-> [c \in {} |-> <<>>]]

\* magnitude of the binary threshold of create_difference_image
DiffThreshold == 30

\* a base image that is not dimmed
BlendNone(v) == v

\* (0.7 * v + 0.3 * 0).astype(np.uint8): the double product truncated; for
\* 90, 170 and 180 the product falls just below the integer
Blend70(v) ==
    IF v \in {90, 170, 180} THEN (7 * v) \div 10 - 1 ELSE (7 * v) \div 10

\* ImageComparator.create_difference_image
CreateDifferenceImage(image1, image2) ==
    LET rz == ResizeImagesToMatch(image1, image2)
        i1 == rz[1]
        i2 == rz[2]
        diff(c) == [k \in 1 .. Len(i1.px[c]) |-> Abs(i1.px[c][k] - i2.px[c][k])]
        mask(c) == Gray(diff(c)) > DiffThreshold
    IN  IF i1.mode # i2.mode \/ Channels(i1.mode) # 3 THEN NoImage
        ELSE [mode |-> i1.mode, w |-> i1.w, h |-> i1.h,
              px |-> [c \in Coords(i1.w, i1.h) |->
                        IF mask(c) THEN <<255, 100, 100>>
                        ELSE [k \in 1 .. 3 |-> Blend70(i1.px[c][k])]]]

(***************************************************************************)
(* compare_images.                                                         *)
(***************************************************************************)
\* the verdict with a strict comparison
IsMatchStrict(final, threshold) == ~RatGE(Rat(threshold, 100), final)

\* is_match = final_score >= (threshold / 100.0)
IsMatch(final, threshold) == RatGE(final, Rat(threshold, 100))

\* the result returned from the except branch; diff_invoked is not a key of
\* the returned dict: it records whether create_difference_image was called
ErrorResult ==
    [similarity_score |-> Rat(0, 1), is_match |-> FALSE,
     diff_image |-> NoImage, error |-> TRUE, diff_invoked |-> FALSE]

\* a compare_images that generates the difference image for every verdict
DiffAlways(match) == TRUE

\* `... if not is_match else None`: whether create_difference_image is called
DiffWanted(match) == ~match

\* the threshold argument: a percentage, or None (the default applies)
Thr(v)  == [given |-> TRUE, v |-> v]
ThrNone == [given |-> FALSE, v |-> 0]

\* threshold = self.default_threshold when the caller passes None
EffectiveThreshold(threshold) ==
    IF threshold.given THEN threshold.v ELSE DefaultThreshold

\* ImageComparator.compare_images
CompareImages(image1, image2, threshold, so, ho) ==
    LET t  == EffectiveThreshold(threshold)
        rz == ResizeImagesToMatch(image1, image2)
        sc == CalculateSimilarityMetrics(rz[1], rz[2], so, ho)
        final == MeanOfThree(sc.ssim, sc.pixel_similarity, sc.histogram_similarity)
        match == IsMatch(final, t)
    IN  IF sc.raise THEN ErrorResult
        ELSE [similarity_score |-> RatTimes(final, 100),
              is_match |-> match,
              diff_image |-> IF DiffWanted(match)
                             THEN CreateDifferenceImage(rz[1], rz[2])
                             ELSE NoImage,
              error |-> FALSE,
              diff_invoked |-> DiffWanted(match)]

(***************************************************************************)
(* ImageComparator.create_overlay.                                         *)
(***************************************************************************)
\* image.convert('RGBA'): an opaque alpha channel is added to an RGB image
ToRGBA(img) ==
    [mode |-> "RGBA", w |-> img.w, h |-> img.h,
     px |-> [c \in Coords(img.w, img.h) |->
                ConvertPixel(img.mode, "RGBA", img.px[c])]]

\* image.convert('RGB'): the alpha channel is dropped
ToRGB(img) ==
    [mode |-> "RGB", w |-> img.w, h |-> img.h,
     px |-> [c \in Coords(img.w, img.h) |->
                ConvertPixel(img.mode, "RGB", img.px[c])]]

\* Image.new('RGBA', size, (255, 255, 255, 0))
TransparentWhite(w, h) ==
    [mode |-> "RGBA", w |-> w, h |-> h,
     px |-> [c \in Coords(w, h) |-> <<255, 255, 255, 0>>]]

\* Image.blend(in1, in2, alpha), alpha in tenths: a copy of in1 at 0, a copy
\* of in2 at 1, else each band is in1 + alpha * (in2 - in1) cut to an integer
Blend(in1, in2, tenths) ==
    IF tenths = 0 THEN in1
    ELSE IF tenths = 10 THEN in2
    ELSE [in1 EXCEPT !.px =
            [c \in Coords(in1.w, in1.h) |->
                [k \in 1 .. 4 |->
                    (10 * in1.px[c][k]
                       + tenths * (in2.px[c][k] - in1.px[c][k])) \div 10]]]

\* the division by 255 of the compositing code: ((a >> 8) + a) >> 8
ShiftForDiv255(a) == ((a \div 256) + a) \div 256

\* a compositing of one band that cuts the quotient instead of rounding it
CompositeBandTruncating(s, d, coef1, coef2) ==
    ShiftForDiv255(s * coef1 + d * coef2) \div 128

\* one colour band of a composited pixel, in 7-bit fixed point
CompositeBand(s, d, coef1, coef2) ==
    ShiftForDiv255(s * coef1 + d * coef2 + 128 * 128) \div 128

\* one pixel of Image.alpha_composite(dst, src): src over dst
CompositePixel(d, s) ==
    IF s[4] = 0 THEN d
    ELSE LET blend   == d[4] * (255 - s[4])
             outa255 == s[4] * 255 + blend
             coef1   == (s[4] * 255 * 255 * 128) \div outa255
             coef2   == 255 * 128 - coef1
         IN  << CompositeBand(s[1], d[1], coef1, coef2),
                CompositeBand(s[2], d[2], coef1, coef2),
                CompositeBand(s[3], d[3], coef1, coef2),
                ShiftForDiv255(outa255 + 128) >>

\* Image.alpha_composite(dst, src)
AlphaComposite(dst, src) ==
    [dst EXCEPT !.px =
        [c \in Coords(dst.w, dst.h) |-> CompositePixel(dst.px[c], src.px[c])]]

\* ImageComparator.create_overlay(image1, image2, opacity), opacity in tenths
CreateOverlay(image1, image2, tenths) ==
    LET r == ResizeImagesToMatch(image1, image2)
        img1_rgba == ToRGBA(r[1])
        img2_rgba == ToRGBA(r[2])
        img1_with_opacity ==
            Blend(TransparentWhite(img1_rgba.w, img1_rgba.h), img1_rgba, tenths)
    IN  ToRGB(AlphaComposite(img2_rgba, img1_with_opacity))

(***************************************************************************)
(* Inputs of the comparison engine.                                        *)
(***************************************************************************)
Modes == {"RGB", "RGBA"}

\* image sides: one below the SSIM window, one at or above it
Sides == {WinSize - 1, MaxSide}

\* <<background, colour of the pixel at the origin>>
Looks == {<<White, White>>, <<Black, Black>>, <<White, Red>>, <<Black, White>>,
          <<Sand, Teal>>, <<White, Yellow>>}

MkImage(mode, w, h, look) ==
    LET base == NewImage(mode, w, h, look[1])
        dot  == NewImage(mode, 1, 1, look[2])
    IN  [base EXCEPT !.px[<<0, 0>>] = dot.px[<<0, 0>>]]

InputImages ==
    {MkImage(m, w, h, l) : m \in Modes, w \in Sides, h \in Sides, l \in Looks}

Thresholds == {ThrNone, Thr(0), Thr(95), Thr(100)}

\* values of the SSIM of two different arrays, and of their histogram
\* correlation
SsimValues == {NaNVal, Num(-200), Num(900)}
HistValues == {0, 1000}

\* opacities of create_overlay, in tenths: both ends and the default 0.5
Opacities == {0, 5, 10}

VARIABLES
    cphase,     \* "input", "resized" or "compared"
    im1, im2,   \* the two images handed to the engine
    cthr,       \* the threshold argument of compare_images
    rz,         \* result of resize_images_to_match
    cres,       \* result of compare_images
    opacity,    \* the opacity argument of create_overlay, in tenths
    overlay,    \* result of create_overlay
    difference  \* result of create_difference_image

cmpVars == <<cphase, im1, im2, cthr, rz, cres, opacity, overlay, difference>>

(***************************************************************************)
(* Capture engine: BrowserManager (browser_automation.py).                 *)
(***************************************************************************)
\* coroutines that may call into one BrowserManager
NCallers == 2
Callers == 1 .. NCallers

\* calls of take_screenshot one coroutine makes when the callers run
\* concurrently
MaxCalls == 1

\* keys of browser_map the captures are asked for
BrowserNames == {"Chrome", "Firefox"}

\* what Image.open(screenshot_bytes) can be, after the conversion to RGB
CaptureImages ==
    << MkImage("RGB", MaxSide, MaxSide, <<White, Red>>),
       MkImage("RGB", MaxSide, MaxSide, <<Black, White>>),
       MkImage("RGB", WinSize - 1, WinSize - 1, <<White, White>>) >>

VARIABLES
    playwright,   \* self.playwright: 0 (None) or the id of the started driver
    browsers,     \* self.browsers: the dict as a sequence of [name, h], in insertion order
    contexts,     \* self.contexts
    nDrivers,     \* drivers started by this manager so far
    drivers,      \* drivers started by this manager and still running
    nLaunched,    \* browser processes launched by this manager so far
    launched,     \* the launches: a sequence of [name, h]
    running,      \* browser processes of this manager still running
    nCtx,         \* contexts created through this manager so far
    openCtx,      \* contexts created and still open
    pc,           \* per caller: the await a take_screenshot call is suspended at
    bname,        \* per caller: browser_name
    browser,      \* per caller: the handle get_browser returned (0: none yet)
    context,      \* per caller: the local `context` (0: None)
    image,        \* per caller: index into CaptureImages of the screenshot (0: none)
    metrics,      \* per caller: whether runtime metrics were collected
    ret,          \* per caller: "pending", "None" or "image"
    closeTried,   \* per caller: context.close() calls of this take_screenshot
    closeRaised,  \* per caller: how many of them raised
    calls,        \* per caller: take_screenshot calls made
    clpc,         \* cleanup(): "idle", "closing", "stopping" or "returned"
    cli,          \* cleanup(): position in self.browsers.values()
    matrix,       \* the combinations, in the order of the three nested loops
    similarity_threshold,
    rpc,          \* run_tests: "entry", "loop", "single", "returned" (to the
                  \* caller), "resumed" (the caller went on) or "raised"
    rend,         \* how run_tests ended: "running", "empty", "stopped",
                  \* "completed", "raised" (in the loop), "setup_raised"
    current_test,
    passed_count,
    failed_count,
    skipped_count,
    results,      \* the local list `results`
    saved,        \* records save_result wrote under the run's test id
    stop_testing, \* st.session_state.stop_testing
    test_running, \* st.session_state.test_running
    test_results, \* st.session_state.test_results
    spc,          \* run_single_test: "idle", "staging", "production", "cleanup"
    staging_capture,     \* index of the staging image, 0 for None
    production_capture,  \* index of the production image, 0 for None
    result,       \* what run_single_test returns: <<>> for None, <<record>>
    outcomes,     \* per finished combination: what was captured, compared, counted
    fatalAt       \* per browser: the combination in which both launches failed first

mgrVars == <<playwright, browsers, contexts, nDrivers, drivers, nLaunched,
             launched, running, nCtx, openCtx>>
callVars == <<pc, bname, browser, context, image, metrics, ret, closeTried,
              closeRaised, calls>>
clVars == <<clpc, cli>>
runVars == <<matrix, similarity_threshold, rpc, rend, current_test,
             passed_count, failed_count, skipped_count, results, saved,
             stop_testing, test_running, test_results>>
singleVars == <<spc, staging_capture, production_capture, result, outcomes>>

(***************************************************************************)
(* State of the result store (result_manager.py), of the session's current *)
(* run, and of a call of a utility function (utils.py).                    *)
(***************************************************************************)
VARIABLES
    dir_exists,      \* whether results_dir / test_id exists
    files,           \* the *.json files of that directory: [name, content]
    clock,           \* datetime.now(), as a counter
    accepted,        \* the metadata of the saves that returned True, in order
    save_returned,   \* what each save_result call returned, in order
    loaded,          \* what the last load_test_results returned, as a set
    n_loaded,        \* the length of the list it returned
    deleted,         \* whether a delete_test_run has touched the directory
    delete_returned, \* what the last delete_test_run returned
    current_test_id, \* st.session_state.current_test_id: 0 for None
    sphase,          \* last operation on the store
    uphase,          \* "input" or "returned"
    uin,             \* the arguments of the utility call
    uout,            \* its return value
    ovstage,         \* handle_common_overlays: the await it is at
    ovidx,           \* the position in the list it goes through
    attempted,       \* the selectors and buttons it has tried, in order
    ovfailed,        \* those of them whose attempt raised
    tests_started    \* st.session_state.tests_started

storeVars == <<dir_exists, files, clock, accepted, save_returned, loaded,
               n_loaded, deleted, delete_returned, current_test_id, sphase>>
utilVars == <<uphase, uin, uout>>
ovVars == <<ovstage, ovidx, attempted, ovfailed>>
uiVars == <<tests_started>>
sideVars == <<storeVars, utilVars, ovVars, uiVars>>

vars == <<cmpVars, mgrVars, callVars, clVars, runVars, singleVars, fatalAt,
          sideVars>>

\* BrowserManager.__init__, with no call in progress
InitManager ==
    /\ playwright = 0
    /\ browsers = <<>>
    /\ contexts = {}
    /\ nDrivers = 0
    /\ drivers = {}
    /\ nLaunched = 0
    /\ launched = <<>>
    /\ running = {}
    /\ nCtx = 0
    /\ openCtx = {}
    /\ pc = [p \in Callers |-> "idle"]
    /\ bname = [p \in Callers |-> "Chrome"]
    /\ browser = [p \in Callers |-> 0]
    /\ context = [p \in Callers |-> 0]
    /\ image = [p \in Callers |-> 0]
    /\ metrics = [p \in Callers |-> FALSE]
    /\ ret = [p \in Callers |-> "pending"]
    /\ closeTried = [p \in Callers |-> 0]
    /\ closeRaised = [p \in Callers |-> 0]
    /\ calls = [p \in Callers |-> 0]
    /\ clpc = "idle"
    /\ cli = 0

\* the session state before any run, and no run_tests call
InitNoRun ==
    /\ matrix = <<>>
    /\ similarity_threshold = DefaultThreshold
    /\ rpc = "none"
    /\ rend = "running"
    /\ current_test = 0
    /\ passed_count = 0
    /\ failed_count = 0
    /\ skipped_count = 0
    /\ results = <<>>
    /\ saved = <<>>
    /\ stop_testing = FALSE
    /\ test_running = FALSE
    /\ tests_started = FALSE
    /\ test_results = <<>>
    /\ spc = "idle"
    /\ staging_capture = 0
    /\ production_capture = 0
    /\ result = <<>>
    /\ outcomes = <<>>
    /\ fatalAt = [b \in BrowserNames |-> 0]

\* an empty store and no current run
InitNoStore ==
    /\ dir_exists = FALSE
    /\ files = {}
    /\ clock = 0
    /\ accepted = <<>>
    /\ save_returned = <<>>
    /\ loaded = {}
    /\ n_loaded = 0
    /\ deleted = FALSE
    /\ delete_returned = FALSE
    /\ current_test_id = 0
    /\ sphase = "none"

\* no utility call in progress
InitNoUtils ==
    /\ uphase = "none"
    /\ uin = <<>>
    /\ uout = <<>>

\* handle_common_overlays has not been called
InitNoOverlays ==
    /\ ovstage = "none"
    /\ ovidx = 0
    /\ attempted = <<>>
    /\ ovfailed = {}

\* no comparison in progress
InitNoCompare ==
    /\ cphase = "none"
    /\ im1 = NoImage
    /\ im2 = NoImage
    /\ cthr = ThrNone
    /\ rz = <<NoImage, NoImage>>
    /\ cres = ErrorResult
    /\ opacity = 0
    /\ overlay = NoImage
    /\ difference = NoImage

InitCompare ==
    /\ InitManager
    /\ InitNoRun
    /\ InitNoStore
    /\ InitNoUtils
    /\ InitNoOverlays
    /\ cphase = "input"
    /\ im1 \in InputImages
    /\ im2 \in InputImages
    /\ cthr = ThrNone
    /\ rz = <<NoImage, NoImage>>
    /\ cres = ErrorResult
    /\ opacity = 0
    /\ overlay = NoImage
    /\ difference = NoImage

\* a call of resize_images_to_match(im1, im2)
DoResize ==
    /\ cphase = "input"
    /\ rz' = ResizeImagesToMatch(im1, im2)
    /\ cphase' = "resized"
    /\ UNCHANGED <<im1, im2, cthr, cres, opacity, overlay, difference>>
    /\ UNCHANGED <<mgrVars, callVars, clVars, runVars, singleVars, fatalAt, sideVars>>

\* a call of compare_images(im1, im2, t)
DoCompare ==
    /\ cphase = "input"
    /\ \E t \in Thresholds, so \in SsimValues, ho \in HistValues :
          /\ cthr' = t
          /\ cres' = CompareImages(im1, im2, t, so, ho)
    /\ cphase' = "compared"
    /\ UNCHANGED <<im1, im2, rz, opacity, overlay, difference>>
    /\ UNCHANGED <<mgrVars, callVars, clVars, runVars, singleVars, fatalAt, sideVars>>

\* a call of create_overlay(im1, im2, opacity)
DoOverlay ==
    /\ cphase = "input"
    /\ \E o \in Opacities :
          /\ opacity' = o
          /\ overlay' = CreateOverlay(im1, im2, o)
    /\ cphase' = "overlaid"
    /\ UNCHANGED <<im1, im2, cthr, rz, cres, difference>>
    /\ UNCHANGED <<mgrVars, callVars, clVars, runVars, singleVars, fatalAt, sideVars>>

\* a call of create_difference_image(im1, im2)
DoDifference ==
    /\ cphase = "input"
    /\ difference' = CreateDifferenceImage(im1, im2)
    /\ cphase' = "differenced"
    /\ UNCHANGED <<im1, im2, cthr, rz, cres, opacity, overlay>>
    /\ UNCHANGED <<mgrVars, callVars, clVars, runVars, singleVars, fatalAt, sideVars>>

NextCompare == DoResize \/ DoCompare \/ DoOverlay \/ DoDifference

SpecCompare == InitCompare /\ [][NextCompare]_vars

\* browser_name in self.browsers
HasBrowser(name) == \E i \in 1 .. Len(browsers) : browsers[i].name = name

\* self.browsers[browser_name]
BrowserHandle(name) ==
    LET i == CHOOSE j \in 1 .. Len(browsers) : browsers[j].name = name
    IN  browsers[i].h

\* self.browsers[browser_name] = h
SetBrowser(name, h) ==
    IF HasBrowser(name)
    THEN [i \in 1 .. Len(browsers) |->
            IF browsers[i].name = name THEN [name |-> name, h |-> h]
            ELSE browsers[i]]
    ELSE Append(browsers, [name |-> name, h |-> h])

\* the return of a take_screenshot call with value r
Return(p, r) ==
    /\ ret' = [ret EXCEPT ![p] = r]
    /\ pc' = [pc EXCEPT ![p] = "done"]

\* get_browser after initialize(): the cache lookup, up to the next await
GetBrowserLookup(p, name) ==
    IF HasBrowser(name)
    THEN /\ browser' = [browser EXCEPT ![p] = BrowserHandle(name)]
         /\ pc' = [pc EXCEPT ![p] = "new_context"]
    ELSE /\ browser' = [browser EXCEPT ![p] = 0]
         /\ pc' = [pc EXCEPT ![p] = "launch_full"]

\* take_screenshot, from the call to its first await
TakeScreenshotEnter(p, name) ==
    /\ pc[p] \in {"idle", "done"}
    /\ bname' = [bname EXCEPT ![p] = name]
    /\ context' = [context EXCEPT ![p] = 0]
    /\ image' = [image EXCEPT ![p] = 0]
    /\ metrics' = [metrics EXCEPT ![p] = FALSE]
    /\ ret' = [ret EXCEPT ![p] = "pending"]
    /\ closeTried' = [closeTried EXCEPT ![p] = 0]
    /\ closeRaised' = [closeRaised EXCEPT ![p] = 0]
    /\ calls' = [calls EXCEPT ![p] = @ + 1]
    /\ IF playwright = 0
       THEN /\ pc' = [pc EXCEPT ![p] = "start_driver"]
            /\ browser' = [browser EXCEPT ![p] = 0]
       ELSE GetBrowserLookup(p, name)

\* initialize(): async_playwright().start() returns or raises
StartDriver(p) ==
    /\ pc[p] = "start_driver"
    /\ \/ /\ playwright' = nDrivers + 1
          /\ nDrivers' = nDrivers + 1
          /\ drivers' = drivers \cup {nDrivers + 1}
          /\ GetBrowserLookup(p, bname[p])
          /\ UNCHANGED ret
       \/ /\ Return(p, "None")
          /\ UNCHANGED <<playwright, nDrivers, drivers, browser>>
    /\ UNCHANGED <<browsers, contexts, nLaunched, launched, running, nCtx,
                   openCtx, bname, context, image, metrics, closeTried,
                   closeRaised, calls>>
    /\ UNCHANGED <<cmpVars, clVars, runVars, singleVars, fatalAt, sideVars>>

\* a successful browser_engine.launch(): the handle is stored and returned
Launched(p) ==
    LET h == nLaunched + 1
    IN  /\ browsers' = SetBrowser(bname[p], h)
        /\ nLaunched' = h
        /\ launched' = Append(launched, [name |-> bname[p], h |-> h])
        /\ running' = running \cup {h}
        /\ browser' = [browser EXCEPT ![p] = h]
        /\ pc' = [pc EXCEPT ![p] = "new_context"]
        /\ UNCHANGED ret

\* a get_browser that gives up when the launch with the full flag set raises
LaunchFullNoRetry(p) ==
    /\ pc[p] = "launch_full"
    /\ \/ Launched(p)
       \/ /\ Return(p, "None")
          /\ UNCHANGED <<browsers, nLaunched, launched, running, browser>>
    /\ UNCHANGED <<playwright, contexts, nDrivers, drivers, nCtx, openCtx,
                   bname, context, image, metrics, closeTried, closeRaised,
                   calls>>
    /\ UNCHANGED <<cmpVars, clVars, runVars, singleVars, fatalAt, sideVars>>

\* get_browser: the launch with the full flag set returns or raises
LaunchFull(p) ==
    /\ pc[p] = "launch_full"
    /\ \/ Launched(p)
       \/ /\ pc' = [pc EXCEPT ![p] = "launch_minimal"]
          /\ UNCHANGED <<browsers, nLaunched, launched, running, browser, ret>>
    /\ UNCHANGED <<playwright, contexts, nDrivers, drivers, nCtx, openCtx,
                   bname, context, image, metrics, closeTried, closeRaised,
                   calls>>
    /\ UNCHANGED <<cmpVars, clVars, runVars, singleVars, fatalAt, sideVars>>

\* get_browser: the launch with the minimal flag set returns or raises; the
\* exception is caught by take_screenshot, whose context is still None
LaunchMinimal(p) ==
    /\ pc[p] = "launch_minimal"
    /\ \/ /\ Launched(p)
          /\ UNCHANGED fatalAt
       \/ /\ Return(p, "None")
          /\ fatalAt' = [fatalAt EXCEPT ![bname[p]] =
                            IF @ = 0 THEN current_test ELSE @]
          /\ UNCHANGED <<browsers, nLaunched, launched, running, browser>>
    /\ UNCHANGED <<playwright, contexts, nDrivers, drivers, nCtx, openCtx,
                   bname, context, image, metrics, closeTried, closeRaised,
                   calls>>
    /\ UNCHANGED <<cmpVars, clVars, runVars, singleVars, sideVars>>

\* a create_context that hands out the context made last when there is one
NewContextReused(p) ==
    /\ pc[p] = "new_context"
    /\ IF nCtx > 0
       THEN /\ context' = [context EXCEPT ![p] = nCtx]
            /\ UNCHANGED <<nCtx, openCtx>>
       ELSE /\ nCtx' = nCtx + 1
            /\ openCtx' = openCtx \cup {nCtx + 1}
            /\ context' = [context EXCEPT ![p] = nCtx + 1]
    /\ pc' = [pc EXCEPT ![p] = "new_page"]
    /\ UNCHANGED ret
    /\ UNCHANGED <<playwright, browsers, contexts, nDrivers, drivers, nLaunched,
                   launched, running, bname, browser, image, metrics,
                   closeTried, closeRaised, calls>>
    /\ UNCHANGED <<cmpVars, clVars, runVars, singleVars, fatalAt, sideVars>>

\* create_context: browser.new_context(**context_options) returns or raises
NewContext(p) ==
    /\ pc[p] = "new_context"
    /\ \/ /\ nCtx' = nCtx + 1
          /\ openCtx' = openCtx \cup {nCtx + 1}
          /\ context' = [context EXCEPT ![p] = nCtx + 1]
          /\ pc' = [pc EXCEPT ![p] = "new_page"]
          /\ UNCHANGED ret
       \/ /\ Return(p, "None")
          /\ UNCHANGED <<nCtx, openCtx, context>>
    /\ UNCHANGED <<playwright, browsers, contexts, nDrivers, drivers, nLaunched,
                   launched, running, bname, browser, image, metrics,
                   closeTried, closeRaised, calls>>
    /\ UNCHANGED <<cmpVars, clVars, runVars, singleVars, fatalAt, sideVars>>

\* an await of take_screenshot's try block that returns (to) or raises into the
\* except branch, where the context is not None
StepOrRaise(p, from, to) ==
    /\ pc[p] = from
    /\ \/ pc' = [pc EXCEPT ![p] = to]
       \/ pc' = [pc EXCEPT ![p] = "close_in_except"]
    /\ UNCHANGED <<mgrVars, bname, browser, context, image, metrics, ret,
                   closeTried, closeRaised, calls>>
    /\ UNCHANGED <<cmpVars, clVars, runVars, singleVars, fatalAt, sideVars>>

\* context.new_page()
NewPage(p) == StepOrRaise(p, "new_page", "goto_domcontentloaded")

\* a navigation without the fallback: an exception of the first page.goto
\* reaches the except branch of take_screenshot
GotoWithoutFallback(p) == StepOrRaise(p, "goto_domcontentloaded", "fonts")

\* page.goto(url, wait_until='domcontentloaded'): on an exception the fallback
GotoDomContentLoaded(p) ==
    /\ pc[p] = "goto_domcontentloaded"
    /\ \/ pc' = [pc EXCEPT ![p] = "fonts"]
       \/ pc' = [pc EXCEPT ![p] = "goto_load"]
    /\ UNCHANGED <<mgrVars, bname, browser, context, image, metrics, ret,
                   closeTried, closeRaised, calls>>
    /\ UNCHANGED <<cmpVars, clVars, runVars, singleVars, fatalAt, sideVars>>

\* page.goto(url, wait_until='load')
GotoLoad(p) == StepOrRaise(p, "goto_load", "fonts")

\* an await whose exception is swallowed: the capture goes on either way
BestEffort(p, from, to) ==
    /\ pc[p] = from
    /\ pc' = [pc EXCEPT ![p] = to]
    /\ UNCHANGED <<mgrVars, bname, browser, context, image, metrics, ret,
                   closeTried, closeRaised, calls>>
    /\ UNCHANGED <<cmpVars, clVars, runVars, singleVars, fatalAt, sideVars>>

\* a font wait whose exception is not caught
FontsReadyOrRaise(p) == StepOrRaise(p, "fonts", "sleep")

\* the document.fonts.ready evaluation
FontsReady(p) == BestEffort(p, "fonts", "sleep")

\* asyncio.sleep(wait_time)
Sleep(p) == BestEffort(p, "sleep", "overlays")

\* handle_common_overlays(page)
HandleCommonOverlays(p) == BestEffort(p, "overlays", "metrics")

\* the runtime metrics evaluation: metrics stay None when it raises
CollectMetrics(p) ==
    /\ pc[p] = "metrics"
    /\ \E ok \in BOOLEAN : metrics' = [metrics EXCEPT ![p] = ok]
    /\ pc' = [pc EXCEPT ![p] = "screenshot"]
    /\ UNCHANGED <<mgrVars, bname, browser, context, image, ret, closeTried,
                   closeRaised, calls>>
    /\ UNCHANGED <<cmpVars, clVars, runVars, singleVars, fatalAt, sideVars>>

\* page.screenshot(...), Image.open and _enhance_screenshot_quality
Screenshot(p) ==
    /\ pc[p] = "screenshot"
    /\ \/ /\ \E i \in 1 .. Len(CaptureImages) : image' = [image EXCEPT ![p] = i]
          /\ pc' = [pc EXCEPT ![p] = "close"]
       \/ /\ pc' = [pc EXCEPT ![p] = "close_in_except"]
          /\ UNCHANGED image
    /\ UNCHANGED <<mgrVars, bname, browser, context, metrics, ret, closeTried,
                   closeRaised, calls>>
    /\ UNCHANGED <<cmpVars, clVars, runVars, singleVars, fatalAt, sideVars>>

\* one await of context.close(): it returns, and the context is closed, or it
\* raises, and the context may or may not have been closed
ContextClose(p, ok) ==
    /\ closeTried' = [closeTried EXCEPT ![p] = @ + 1]
    /\ IF ok
       THEN /\ openCtx' = openCtx \ {context[p]}
            /\ UNCHANGED closeRaised
       ELSE /\ closeRaised' = [closeRaised EXCEPT ![p] = @ + 1]
            /\ \E stays \in BOOLEAN :
                  openCtx' = IF stays THEN openCtx ELSE openCtx \ {context[p]}

\* a success path that returns the image whether the close raised or not
CloseAndReturnAnyway(p) ==
    /\ pc[p] = "close"
    /\ \E ok \in BOOLEAN : ContextClose(p, ok)
    /\ Return(p, "image")
    /\ UNCHANGED <<playwright, browsers, contexts, nDrivers, drivers, nLaunched,
                   launched, running, nCtx, bname, browser, context, image,
                   metrics, calls>>
    /\ UNCHANGED <<cmpVars, clVars, runVars, singleVars, fatalAt, sideVars>>

\* the close of the success path, then the return of the image
CloseAndReturn(p) ==
    /\ pc[p] = "close"
    /\ \/ /\ ContextClose(p, TRUE)
          /\ Return(p, "image")
       \/ /\ ContextClose(p, FALSE)
          /\ pc' = [pc EXCEPT ![p] = "close_in_except"]
          /\ UNCHANGED ret
    /\ UNCHANGED <<playwright, browsers, contexts, nDrivers, drivers, nLaunched,
                   launched, running, nCtx, bname, browser, context, image,
                   metrics, calls>>
    /\ UNCHANGED <<cmpVars, clVars, runVars, singleVars, fatalAt, sideVars>>

\* an except branch that returns None without closing the context
ExceptNoClose(p) ==
    /\ pc[p] = "close_in_except"
    /\ Return(p, "None")
    /\ UNCHANGED <<mgrVars, bname, browser, context, image, metrics,
                   closeTried, closeRaised, calls>>
    /\ UNCHANGED <<cmpVars, clVars, runVars, singleVars, fatalAt, sideVars>>

\* the except branch with a context: close it, swallow a failure, return None
CloseInExcept(p) ==
    /\ pc[p] = "close_in_except"
    /\ \E ok \in BOOLEAN : ContextClose(p, ok)
    /\ Return(p, "None")
    /\ UNCHANGED <<playwright, browsers, contexts, nDrivers, drivers, nLaunched,
                   launched, running, nCtx, bname, browser, context, image,
                   metrics, calls>>
    /\ UNCHANGED <<cmpVars, clVars, runVars, singleVars, fatalAt, sideVars>>

\* the steps of a take_screenshot call in progress
TakeScreenshotStep(p) ==
    \/ StartDriver(p)
    \/ LaunchFull(p)
    \/ LaunchMinimal(p)
    \/ NewContext(p)
    \/ NewPage(p)
    \/ GotoDomContentLoaded(p)
    \/ GotoLoad(p)
    \/ FontsReady(p)
    \/ Sleep(p)
    \/ HandleCommonOverlays(p)
    \/ CollectMetrics(p)
    \/ Screenshot(p)
    \/ CloseAndReturn(p)
    \/ CloseInExcept(p)

(***************************************************************************)
(* BrowserManager.cleanup.                                                 *)
(***************************************************************************)
\* "Reset state" at the end of cleanup's try block
ResetState ==
    /\ browsers' = <<>>
    /\ contexts' = {}
    /\ playwright' = 0

\* cleanup after the last browser.close(): stop the driver if there is one,
\* else reset the state and return
AfterBrowsersClosed ==
    IF playwright # 0
    THEN /\ clpc' = "stopping"
         /\ UNCHANGED <<browsers, contexts, playwright>>
    ELSE /\ clpc' = "returned"
         /\ ResetState

\* cleanup, from the call to its first await (self.contexts is empty)
CleanupEnter ==
    /\ IF Len(browsers) > 0
       THEN /\ clpc' = "closing"
            /\ cli' = 1
            /\ UNCHANGED <<browsers, contexts, playwright>>
       ELSE /\ cli' = 0
            /\ AfterBrowsersClosed
    /\ UNCHANGED <<nDrivers, drivers, nLaunched, launched, running, nCtx,
                   openCtx>>

\* cleanup: one browser.close() returns, or raises into the except branch,
\* which logs the error and lets cleanup return
CleanupCloseBrowser ==
    /\ clpc = "closing"
    /\ \/ /\ running' = running \ {browsers[cli].h}
          /\ IF cli < Len(browsers)
             THEN /\ cli' = cli + 1
                  /\ UNCHANGED <<clpc, browsers, contexts, playwright>>
             ELSE /\ UNCHANGED cli
                  /\ AfterBrowsersClosed
       \/ /\ \E stays \in BOOLEAN :
                running' = IF stays THEN running ELSE running \ {browsers[cli].h}
          /\ clpc' = "returned"
          /\ UNCHANGED <<cli, browsers, contexts, playwright>>
    /\ UNCHANGED <<nDrivers, drivers, nLaunched, launched, nCtx, openCtx>>

\* cleanup: self.playwright.stop() returns, and the state is reset, or raises
CleanupStopDriver ==
    /\ clpc = "stopping"
    /\ \/ /\ drivers' = drivers \ {playwright}
          /\ ResetState
       \/ /\ \E stays \in BOOLEAN :
                drivers' = IF stays THEN drivers ELSE drivers \ {playwright}
          /\ UNCHANGED <<browsers, contexts, playwright>>
    /\ clpc' = "returned"
    /\ UNCHANGED <<cli, nDrivers, nLaunched, launched, running, nCtx, openCtx>>

CleanupStep ==
    /\ \/ CleanupCloseBrowser
       \/ CleanupStopDriver
    /\ UNCHANGED <<cmpVars, callVars, runVars, singleVars, fatalAt, sideVars>>

(***************************************************************************)
(* Concurrent use of one BrowserManager.                                   *)
(***************************************************************************)
InitConcurrent ==
    /\ InitManager
    /\ InitNoRun
    /\ InitNoCompare
    /\ InitNoStore
    /\ InitNoUtils
    /\ InitNoOverlays

\* a coroutine calls take_screenshot on the shared manager
Call(p) ==
    /\ calls[p] < MaxCalls
    /\ \E name \in BrowserNames : TakeScreenshotEnter(p, name)
    /\ UNCHANGED <<mgrVars, cmpVars, clVars, runVars, singleVars, fatalAt, sideVars>>

NextConcurrent ==
    \/ \E p \in Callers : Call(p)
    \/ \E p \in Callers : TakeScreenshotStep(p)

SpecConcurrent == InitConcurrent /\ [][NextConcurrent]_vars

(***************************************************************************)
(* handle_common_overlays, await by await, within one take_screenshot.     *)
(***************************************************************************)
\* overlay_selectors
OverlaySelectors ==
    <<"[data-testid=\"cookie-banner\"]", ".cookie-banner", ".cookie-notice",
      ".gdpr-banner", ".modal-overlay", "[role=\"dialog\"]", ".popup-overlay",
      "#cookie-consent">>

\* accept_buttons
AcceptButtons ==
    <<"button:has-text(\"Accept\")", "button:has-text(\"OK\")",
      "button:has-text(\"Close\")", "button:has-text(\"Got it\")",
      "[data-testid=\"accept-cookies\"]">>

\* the selectors whose double quotes end the string literal of the script
\* f'document.querySelector("{selector}").style.display = "none"': the
\* evaluation of that script raises
UnquotableSelectors == {"[data-testid=\"cookie-banner\"]", "[role=\"dialog\"]"}

\* what take_screenshot(.., return_metrics=True) has returned: None, or the
\* image with (metrics or {})
ReturnedValue(p) ==
    IF ret[p] = "image"
    THEN [image |-> image[p], metrics |-> IF metrics[p] THEN "runtime" ELSE "empty"]
    ELSE [image |-> 0, metrics |-> "none"]

\* handle_common_overlays is entered: the lists are built
OverlaysEnter(p) ==
    /\ pc[p] = "overlays"
    /\ ovstage \in {"none", "returned"}
    /\ ovstage' = "wait"
    /\ ovidx' = 1
    /\ attempted' = <<>>
    /\ ovfailed' = {}
    /\ UNCHANGED pc

\* the selector loop goes on to its next selector, or the button loop starts
NextSelector ==
    IF ovidx < Len(OverlaySelectors)
    THEN ovstage' = "wait" /\ ovidx' = ovidx + 1
    ELSE ovstage' = "click" /\ ovidx' = 1

\* the button loop goes on to its next button, or handle_common_overlays
\* returns to take_screenshot
NextButton(p) ==
    IF ovidx < Len(AcceptButtons)
    THEN ovstage' = "click" /\ ovidx' = ovidx + 1 /\ UNCHANGED pc
    ELSE ovstage' = "returned" /\ UNCHANGED ovidx
         /\ pc' = [pc EXCEPT ![p] = "metrics"]

\* page.wait_for_selector(selector, timeout=1000) returns or raises (continue)
WaitForSelector(p) ==
    /\ pc[p] = "overlays"
    /\ ovstage = "wait"
    /\ attempted' = Append(attempted, OverlaySelectors[ovidx])
    /\ \/ ovstage' = "hide" /\ UNCHANGED <<ovidx, ovfailed>>
       \/ /\ ovfailed' = ovfailed \cup {OverlaySelectors[ovidx]}
          /\ NextSelector
    /\ UNCHANGED pc

\* page.evaluate of the script that hides the selector returns or raises
HideSelector(p) ==
    /\ pc[p] = "overlays"
    /\ ovstage = "hide"
    /\ \/ /\ OverlaySelectors[ovidx] \notin UnquotableSelectors
          /\ UNCHANGED ovfailed
       \/ ovfailed' = ovfailed \cup {OverlaySelectors[ovidx]}
    /\ NextSelector
    /\ UNCHANGED <<attempted, pc>>

\* page.click(button_selector, timeout=1000) returns or raises (continue)
ClickButton(p) ==
    /\ pc[p] = "overlays"
    /\ ovstage = "click"
    /\ attempted' = Append(attempted, AcceptButtons[ovidx])
    /\ \/ ovstage' = "pause" /\ UNCHANGED <<ovidx, ovfailed, pc>>
       \/ /\ ovfailed' = ovfailed \cup {AcceptButtons[ovidx]}
          /\ NextButton(p)

\* asyncio.sleep(0.5) after a click
PauseAfterClick(p) ==
    /\ pc[p] = "overlays"
    /\ ovstage = "pause"
    /\ NextButton(p)
    /\ UNCHANGED <<attempted, ovfailed>>

\* one await of handle_common_overlays
OverlayStep(p) ==
    /\ \/ OverlaysEnter(p)
       \/ WaitForSelector(p)
       \/ HideSelector(p)
       \/ ClickButton(p)
       \/ PauseAfterClick(p)
    /\ UNCHANGED <<mgrVars, bname, browser, context, image, metrics, ret,
                   closeTried, closeRaised, calls>>
    /\ UNCHANGED <<cmpVars, clVars, runVars, singleVars, fatalAt, storeVars,
                   utilVars, uiVars>>

\* one capture after the other on one manager, handle_common_overlays being
\* followed await by await
NextOverlays ==
    \/ Call(1)
    \/ StartDriver(1)
    \/ LaunchFull(1)
    \/ LaunchMinimal(1)
    \/ NewContext(1)
    \/ NewPage(1)
    \/ GotoDomContentLoaded(1)
    \/ GotoLoad(1)
    \/ FontsReady(1)
    \/ Sleep(1)
    \/ OverlayStep(1)
    \/ CollectMetrics(1)
    \/ Screenshot(1)
    \/ CloseAndReturn(1)
    \/ CloseInExcept(1)

SpecOverlays == InitConcurrent /\ [][NextOverlays]_vars

(***************************************************************************)
(* Orchestration: run_tests and run_single_test (app.py).                  *)
(***************************************************************************)
\* largest number of combinations of a run
MaxCombos == 2

\* the url pairs (by name), browser lists and device lists a run can be given
UrlPairLists == {[i \in 1 .. n |-> i] : n \in 0 .. MaxCombos}
BrowserLists == {<<"Chrome">>, <<"Chrome", "Firefox">>}
DeviceLists  == {<<"Desktop">>, <<"Desktop", "Mobile">>}

\* the combinations in the order of the nested loops: url pair, browser, device
Combinations(urls, bs, ds) ==
    [k \in 1 .. Len(urls) * Len(bs) * Len(ds) |->
        LET i == (k - 1) \div (Len(bs) * Len(ds))
            j == ((k - 1) \div Len(ds)) % Len(bs)
            d == (k - 1) % Len(ds)
        IN  [test_name |-> urls[i + 1], browser |-> bs[j + 1],
             device |-> ds[d + 1]]]

\* the id of the session's run: test_<timestamp>
TestId == 1

\* lower end of the threshold slider
MinThreshold == 50

\* run_tests has been called for a matrix; the Run button has set
\* test_running and the caller has set tests_started
InitRun ==
    /\ InitManager
    /\ InitNoCompare
    /\ InitNoStore
    /\ InitNoUtils
    /\ InitNoOverlays
    /\ \E urls \in UrlPairLists, bs \in BrowserLists, ds \in DeviceLists :
          /\ Len(urls) * Len(bs) * Len(ds) <= MaxCombos
          /\ matrix = Combinations(urls, bs, ds)
    /\ similarity_threshold \in {MinThreshold, DefaultThreshold}
    /\ rpc = "entry"
    /\ rend = "running"
    /\ current_test = 0
    /\ passed_count = 0
    /\ failed_count = 0
    /\ skipped_count = 0
    /\ results = <<>>
    /\ saved = <<>>
    /\ stop_testing = FALSE
    /\ test_running = TRUE
    /\ tests_started = TRUE
    /\ test_results = <<>>
    /\ spc = "idle"
    /\ staging_capture = 0
    /\ production_capture = 0
    /\ result = <<>>
    /\ outcomes = <<>>
    /\ fatalAt = [b \in BrowserNames |-> 0]

\* the Stop button: the flag is set while a run is in progress
StopClicked ==
    /\ test_running
    /\ ~stop_testing
    /\ stop_testing' = TRUE
    /\ UNCHANGED <<matrix, similarity_threshold, rpc, rend, current_test,
                   passed_count, failed_count, skipped_count, results, saved,
                   test_running, test_results>>
    /\ UNCHANGED <<cmpVars, mgrVars, callVars, clVars, singleVars, fatalAt, sideVars>>

\* run_tests up to the loop: an empty matrix returns at once
RunTestsEnter ==
    /\ rpc = "entry"
    /\ IF Len(matrix) = 0
       THEN /\ test_running' = FALSE
            /\ rpc' = "returned"
            /\ rend' = "empty"
            /\ UNCHANGED current_test_id
       ELSE /\ rpc' = "loop"
            /\ current_test_id' = TestId
            /\ UNCHANGED <<test_running, rend>>
    /\ UNCHANGED <<matrix, similarity_threshold, current_test, passed_count,
                   failed_count, skipped_count, results, saved, stop_testing,
                   test_results>>
    /\ UNCHANGED <<dir_exists, files, clock, accepted, save_returned, loaded,
                   n_loaded, deleted, delete_returned, sphase>>
    /\ UNCHANGED <<cmpVars, mgrVars, callVars, clVars, singleVars, fatalAt,
                   utilVars, ovVars, uiVars>>

\* the finally block of run_tests
FinallyOfRunTests ==
    /\ test_running' = FALSE
    /\ tests_started' = FALSE

\* the stop check at the top of the loop body finds the flag set: return
StopObserved ==
    /\ rpc = "loop"
    /\ current_test < Len(matrix)
    /\ stop_testing
    /\ rpc' = "returned"
    /\ rend' = "stopped"
    /\ FinallyOfRunTests
    /\ UNCHANGED <<matrix, similarity_threshold, current_test, passed_count,
                   failed_count, skipped_count, results, saved, stop_testing,
                   test_results>>
    /\ UNCHANGED <<cmpVars, mgrVars, callVars, clVars, singleVars, fatalAt,
                   storeVars, utilVars, ovVars>>

\* BrowserManager() of run_single_test: a fresh manager, nothing started
FreshBrowserManager ==
    /\ playwright' = 0
    /\ browsers' = <<>>
    /\ contexts' = {}
    /\ nDrivers' = 0
    /\ drivers' = {}
    /\ nLaunched' = 0
    /\ launched' = <<>>
    /\ running' = {}
    /\ nCtx' = 0
    /\ openCtx' = {}

\* the loop body after the stop check: the counter is advanced and
\* run_single_test runs, with a fresh manager, up to the first await of its
\* staging capture
BeginCombination ==
    /\ rpc = "loop"
    /\ current_test < Len(matrix)
    /\ current_test' = current_test + 1
    /\ rpc' = "single"
    /\ FreshBrowserManager
    /\ spc' = "staging"
    /\ staging_capture' = 0
    /\ production_capture' = 0
    /\ result' = <<>>
    /\ pc[1] \in {"idle", "done"}
    /\ bname' = [bname EXCEPT ![1] = matrix[current_test + 1].browser]
    /\ context' = [context EXCEPT ![1] = 0]
    /\ image' = [image EXCEPT ![1] = 0]
    /\ metrics' = [metrics EXCEPT ![1] = FALSE]
    /\ ret' = [ret EXCEPT ![1] = "pending"]
    /\ closeTried' = [closeTried EXCEPT ![1] = 0]
    /\ closeRaised' = [closeRaised EXCEPT ![1] = 0]
    /\ calls' = [calls EXCEPT ![1] = @ + 1]
    /\ pc' = [pc EXCEPT ![1] = "start_driver"]
    /\ browser' = [browser EXCEPT ![1] = 0]
    /\ UNCHANGED <<matrix, similarity_threshold, rend, passed_count,
                   failed_count, skipped_count, results, saved, stop_testing,
                   test_running, test_results, outcomes>>
    /\ UNCHANGED <<cmpVars, clVars, fatalAt, sideVars>>

\* a loop body that starts the combination whatever the stop flag says
StartCombinationUnchecked == BeginCombination

\* the loop body when the stop check finds the flag not set
StartCombination ==
    /\ ~stop_testing
    /\ BeginCombination

\* the caller has taken the value of its last take_screenshot call: the
\* locals of the call are gone
TakeScreenshotLeave(p) ==
    /\ pc' = [pc EXCEPT ![p] = "idle"]
    /\ bname' = [bname EXCEPT ![p] = "Chrome"]
    /\ browser' = [browser EXCEPT ![p] = 0]
    /\ context' = [context EXCEPT ![p] = 0]
    /\ image' = [image EXCEPT ![p] = 0]
    /\ metrics' = [metrics EXCEPT ![p] = FALSE]
    /\ ret' = [ret EXCEPT ![p] = "pending"]
    /\ closeTried' = [closeTried EXCEPT ![p] = 0]
    /\ closeRaised' = [closeRaised EXCEPT ![p] = 0]
    /\ UNCHANGED calls

\* a run_single_test that builds a second BrowserManager for the production
\* capture
StagingReturnedFreshManager ==
    /\ spc = "staging"
    /\ pc[1] = "done"
    /\ staging_capture' = IF ret[1] = "image" THEN image[1] ELSE 0
    /\ spc' = "production"
    /\ FreshBrowserManager
    /\ bname' = [bname EXCEPT ![1] = matrix[current_test].browser]
    /\ context' = [context EXCEPT ![1] = 0]
    /\ image' = [image EXCEPT ![1] = 0]
    /\ metrics' = [metrics EXCEPT ![1] = FALSE]
    /\ ret' = [ret EXCEPT ![1] = "pending"]
    /\ closeTried' = [closeTried EXCEPT ![1] = 0]
    /\ closeRaised' = [closeRaised EXCEPT ![1] = 0]
    /\ calls' = [calls EXCEPT ![1] = @ + 1]
    /\ pc' = [pc EXCEPT ![1] = "start_driver"]
    /\ browser' = [browser EXCEPT ![1] = 0]
    /\ UNCHANGED <<production_capture, result, outcomes>>
    /\ UNCHANGED <<cmpVars, clVars, runVars, fatalAt, sideVars>>

\* the staging capture has returned: the production capture is called
StagingReturned ==
    /\ spc = "staging"
    /\ pc[1] = "done"
    /\ staging_capture' = IF ret[1] = "image" THEN image[1] ELSE 0
    /\ spc' = "production"
    /\ TakeScreenshotEnter(1, matrix[current_test].browser)
    /\ UNCHANGED <<production_capture, result, outcomes>>
    /\ UNCHANGED <<cmpVars, mgrVars, clVars, runVars, fatalAt, sideVars>>

\* the record run_single_test builds from a comparison result
ResultRecord(combo, cr) ==
    [test_name |-> combo.test_name, browser |-> combo.browser,
     device |-> combo.device, similarity_score |-> cr.similarity_score,
     is_match |-> cr.is_match, has_diff |-> cr.diff_image # NoImage]

\* a run_single_test that returns None when the comparison reports an error
SingleResultDropsErrors(s, pr, thr, combo, so, ho) ==
    LET cr == CompareImages(CaptureImages[Max2(s, 1)],
                            CaptureImages[Max2(pr, 1)], Thr(thr), so, ho)
    IN  IF s = 0 \/ pr = 0 \/ cr.error THEN <<>>
        ELSE <<ResultRecord(combo, cr)>>

\* run_single_test after both captures: None unless both returned an image,
\* else the record of the comparison
SingleResult(s, pr, thr, combo, so, ho) ==
    IF s = 0 \/ pr = 0 THEN <<>>
    ELSE <<ResultRecord(combo,
              CompareImages(CaptureImages[s], CaptureImages[pr], Thr(thr),
                            so, ho))>>

\* what skimage and cv2 return for the captures of a run when the images
\* differ: a degenerate pair and an ordinary pair
RunLibraryValues ==
    {[ssim |-> NaNVal, hist |-> 0], [ssim |-> Num(900), hist |-> 1000]}

\* the production capture has returned: unpack, compare, build the result, and
\* enter the finally block, which calls cleanup()
ProductionReturned ==
    /\ spc = "production"
    /\ pc[1] = "done"
    /\ LET pcap == IF ret[1] = "image" THEN image[1] ELSE 0
       IN  /\ production_capture' = pcap
           /\ \E o \in RunLibraryValues :
                 result' = SingleResult(staging_capture, pcap,
                               similarity_threshold, matrix[current_test],
                               o.ssim, o.hist)
    /\ spc' = "cleanup"
    /\ TakeScreenshotLeave(1)
    /\ CleanupEnter
    /\ UNCHANGED <<staging_capture, outcomes>>
    /\ UNCHANGED <<cmpVars, runVars, fatalAt, sideVars>>

\* whether compare_images took its except branch for the two captures
CompareFailed(s, pr) ==
    /\ s # 0
    /\ pr # 0
    /\ CompareImages(CaptureImages[s], CaptureImages[pr], ThrNone,
                     NaNVal, 0).error

\* the counters and lists after a combination whose result is r
\* (a sequence: <<>> for None); this version counts None as a failure
RecordedCountsNoneAsFailed(r) ==
    [results |-> results \o r,
     saved |-> saved \o r,
     passed |-> passed_count + (IF r # <<>> /\ r[1].is_match THEN 1 ELSE 0),
     failed |-> failed_count + (IF r = <<>> \/ ~r[1].is_match THEN 1 ELSE 0),
     skipped |-> skipped_count]

\* a run_tests that counts a mismatch as failed and as skipped
RecordedCountsMismatchTwice(r) ==
    [results |-> results \o r,
     saved |-> saved \o r,
     passed |-> passed_count + (IF r # <<>> /\ r[1].is_match THEN 1 ELSE 0),
     failed |-> failed_count + (IF r # <<>> /\ ~r[1].is_match THEN 1 ELSE 0),
     skipped |-> skipped_count + (IF r = <<>> \/ ~r[1].is_match THEN 1 ELSE 0)]

\* a run_tests that appends and counts a result but does not call save_result
RecordedWithoutSave(r) ==
    IF r # <<>>
    THEN [results |-> Append(results, r[1]),
          saved |-> saved,
          passed |-> passed_count + (IF r[1].is_match THEN 1 ELSE 0),
          failed |-> failed_count + (IF r[1].is_match THEN 0 ELSE 1),
          skipped |-> skipped_count]
    ELSE [results |-> results, saved |-> saved, passed |-> passed_count,
          failed |-> failed_count, skipped |-> skipped_count + 1]

\* `if result:` of run_tests: append, save_result, count passed or failed;
\* else count skipped
Recorded(r) ==
    IF r # <<>>
    THEN [results |-> Append(results, r[1]),
          saved |-> Append(saved, r[1]),
          passed |-> passed_count + (IF r[1].is_match THEN 1 ELSE 0),
          failed |-> failed_count + (IF r[1].is_match THEN 0 ELSE 1),
          skipped |-> skipped_count]
    ELSE [results |-> results, saved |-> saved, passed |-> passed_count,
          failed |-> failed_count, skipped |-> skipped_count + 1]

\* run_single_test has returned: its locals, the manager among them, are gone
ReturnFromSingle ==
    /\ spc' = "idle"
    /\ staging_capture' = 0
    /\ production_capture' = 0
    /\ result' = <<>>
    /\ clpc' = "idle"
    /\ cli' = 0
    /\ FreshBrowserManager

\* cleanup() and run_single_test have returned: run_tests records the result
RecordResult ==
    /\ rpc = "single"
    /\ spc = "cleanup"
    /\ clpc = "returned"
    /\ LET n == Recorded(result)
       IN  /\ results' = n.results
           /\ saved' = n.saved
           /\ passed_count' = n.passed
           /\ failed_count' = n.failed
           /\ skipped_count' = n.skipped
           /\ outcomes' = Append(outcomes,
                 [combo |-> matrix[current_test],
                  capture_none |-> staging_capture = 0 \/ production_capture = 0,
                  compare_error |-> CompareFailed(staging_capture,
                                                  production_capture),
                  counted |-> IF n.skipped # skipped_count THEN "skipped"
                              ELSE IF n.passed # passed_count THEN "passed"
                              ELSE "failed",
                  appended |-> Len(n.results) - Len(results),
                  persisted |-> Len(n.saved) - Len(saved)])
    /\ rpc' = "loop"
    /\ ReturnFromSingle
    /\ UNCHANGED <<matrix, similarity_threshold, rend, current_test,
                   stop_testing, test_running, test_results>>
    /\ UNCHANGED <<cmpVars, callVars, fatalAt, sideVars>>

\* the loops are exhausted: the results go to the session, the run is over
RunTestsComplete ==
    /\ rpc = "loop"
    /\ current_test = Len(matrix)
    /\ test_results' = results
    /\ FinallyOfRunTests
    /\ rpc' = "returned"
    /\ rend' = "completed"
    /\ UNCHANGED <<matrix, similarity_threshold, current_test, passed_count,
                   failed_count, skipped_count, results, saved, stop_testing>>
    /\ UNCHANGED <<cmpVars, mgrVars, callVars, clVars, singleVars, fatalAt,
                   storeVars, utilVars, ovVars>>

\* a statement of the loop body raises after the stop check (a progress
\* widget, asyncio.run): the except branch reports it, the finally block runs
\* and run_tests returns
LoopBodyRaises ==
    /\ rpc = "loop"
    /\ current_test < Len(matrix)
    /\ ~stop_testing
    /\ current_test' = current_test + 1
    /\ FinallyOfRunTests
    /\ rpc' = "returned"
    /\ rend' = "raised"
    /\ UNCHANGED <<matrix, similarity_threshold, passed_count, failed_count,
                   skipped_count, results, saved, stop_testing, test_results>>
    /\ UNCHANGED <<cmpVars, mgrVars, callVars, clVars, singleVars, fatalAt,
                   storeVars, utilVars, ovVars>>

\* a statement between the empty-matrix test and the try block raises (the
\* progress widgets, ResultManager() making its directories): the exception
\* leaves run_tests, and the caller, outside any try block
SetupRaises ==
    /\ rpc = "entry"
    /\ Len(matrix) > 0
    /\ rpc' = "raised"
    /\ rend' = "setup_raised"
    /\ UNCHANGED <<matrix, similarity_threshold, current_test, passed_count,
                   failed_count, skipped_count, results, saved, stop_testing,
                   test_running, test_results>>
    /\ UNCHANGED <<cmpVars, mgrVars, callVars, clVars, singleVars, fatalAt,
                   sideVars>>

\* run_tests has returned: the caller clears tests_started
CallerResumes ==
    /\ rpc = "returned"
    /\ rpc' = "resumed"
    /\ tests_started' = FALSE
    /\ UNCHANGED <<matrix, similarity_threshold, rend, current_test,
                   passed_count, failed_count, skipped_count, results, saved,
                   stop_testing, test_running, test_results>>
    /\ UNCHANGED <<cmpVars, mgrVars, callVars, clVars, singleVars, fatalAt,
                   storeVars, utilVars, ovVars>>

\* the captures of run_single_test run on caller 1
CaptureStep ==
    /\ spc \in {"staging", "production"}
    /\ TakeScreenshotStep(1)

\* cleanup() runs in the finally block of run_single_test
CleanupInSingle ==
    /\ spc = "cleanup"
    /\ CleanupStep

NextRun ==
    \/ StopClicked
    \/ RunTestsEnter
    \/ StopObserved
    \/ StartCombination
    \/ CaptureStep
    \/ StagingReturned
    \/ ProductionReturned
    \/ CleanupInSingle
    \/ RecordResult
    \/ RunTestsComplete
    \/ LoopBodyRaises
    \/ SetupRaises
    \/ CallerResumes

SpecRun == InitRun /\ [][NextRun]_vars

(***************************************************************************)
(* Result store: ResultManager (result_manager.py) and the two buttons for *)
(* partial results (app.py).  Strings are sequences of characters.         *)
(***************************************************************************)
\* most saves of one run
MaxSaves == 2

\* the length _generate_result_filename cuts its identifier to
ResultFilenameLimit == 100

\* the characters of the alphabet for which c.isalnum() is false
NonAlnum == {" ", ":", ".", "_", "-", "<", ">", "\"", "/", "\\", "|", "?", "*"}

\* the characters for which `c.isalnum() or c in ('_', '-')` is false
DroppedFromFilename == NonAlnum \ {"_", "-"}

\* "".join(c for c in s if c not in drop)
\* (computed by halves)
RECURSIVE Filter(_, _)
Filter(s, drop) ==
    IF Len(s) = 0 THEN <<>>
    ELSE IF Len(s) = 1 THEN (IF s[1] \in drop THEN <<>> ELSE s)
    ELSE LET h == Len(s) \div 2
         IN  Filter(SubSeq(s, 1, h), drop)
               \o Filter(SubSeq(s, h + 1, Len(s)), drop)

\* s.rstrip(chars)
RStrip(s, chars) ==
    LET kept == {i \in 1 .. Len(s) : s[i] \notin chars}
        last == IF kept = {} THEN 0 ELSE CHOOSE i \in kept : \A j \in kept : j <= i
    IN  SubSeq(s, 1, last)

\* s[:n]
Take(s, n) == SubSeq(s, 1, IF Len(s) < n THEN Len(s) ELSE n)

\* the spelling of the browser and device names
Spell ==
    [Chrome  |-> <<"C", "h", "r", "o", "m", "e">>,
     Firefox |-> <<"F", "i", "r", "e", "f", "o", "x">>,
     Desktop |-> <<"D", "e", "s", "k", "t", "o", "p">>]

\* datetime.now().isoformat(), shortened to its date separator, its time
\* separator and one digit that differs from call to call
Timestamp(n) == <<"2", "0", "2", "6", "-", "1", "1", "T", "1", "8", ":">>
                  \o << <<"0", "1", "2", "3", "4", "5", "6", "7", "8", "9">>[n + 1] >>

\* the names a user can give a URL pair: a word, two words, and a name as long
\* as the filename limit
UrlPairNames ==
    { <<"h", "o", "m", "e">>,
      <<"m", "y", " ", "p", "a", "g", "e">>,
      [i \in 1 .. ResultFilenameLimit |-> "a"] }

\* ResultManager._generate_result_filename
GenerateResultFilename(r) ==
    LET identifier == r.test_name \o <<"_">> \o Spell[r.browser] \o <<"_">>
                        \o Spell[r.device] \o <<"_">> \o r.timestamp
    IN  Take(RStrip(Filter(identifier, DroppedFromFilename), {" "}),
             ResultFilenameLimit)

\* the result records run_single_test can hand to save_result at time n
ResultsAt(n) ==
    {[test_name |-> t, browser |-> b, device |-> "Desktop",
      staging_url |-> <<"s">> \o t, production_url |-> <<"p">> \o t,
      similarity_score |-> IF m THEN Rat(100, 1) ELSE Rat(200, 3),
      is_match |-> m, timestamp |-> Timestamp(n)] :
         t \in UrlPairNames, b \in BrowserNames, m \in BOOLEAN}

\* the (test name, browser, device) of a result
CombinationOf(r) == <<r.test_name, r.browser, r.device>>

\* result_metadata of save_result: str(), float() and bool() of the fields,
\* and the paths of the screenshots that were written
ResultMetadata(r, paths) ==
    [test_name |-> r.test_name, browser |-> r.browser, device |-> r.device,
     staging_url |-> r.staging_url, production_url |-> r.production_url,
     similarity_score |-> r.similarity_score, is_match |-> r.is_match,
     timestamp |-> r.timestamp, screenshot_paths |-> paths]

\* _save_screenshots: the paths of all the images of the result, or of those
\* written before an exception, which is swallowed
ScreenshotPaths(r) ==
    LET all == {"staging", "production"}
                 \cup (IF r.is_match THEN {} ELSE {"diff"})
    IN  {all, {"staging"}, {}}

\* the content of a file whose json.dump did not finish
Corrupt == [corrupt |-> TRUE]

\* open(path, 'w') and a write: the file is created or replaced
WriteFile(name, content) ==
    {f \in files : f.name # name} \cup {[name |-> name, content |-> content]}

\* ResultManager.save_result(test_id, r): True after the JSON file is written;
\* False when mkdir or open raises, and when json.dump raises, which leaves
\* the file cut short
SaveResult(r) ==
    \/ /\ dir_exists' = TRUE
       /\ \E paths \in ScreenshotPaths(r) :
             LET md == ResultMetadata(r, paths)
             IN  \/ /\ files' = WriteFile(GenerateResultFilename(r), md)
                    /\ accepted' = Append(accepted, md)
                    /\ save_returned' = Append(save_returned,
                                               [result |-> r, ok |-> TRUE])
                 \/ /\ files' \in {files,
                                   WriteFile(GenerateResultFilename(r), Corrupt)}
                    /\ save_returned' = Append(save_returned,
                                               [result |-> r, ok |-> FALSE])
                    /\ UNCHANGED accepted
    \/ /\ save_returned' = Append(save_returned, [result |-> r, ok |-> FALSE])
       /\ UNCHANGED <<dir_exists, files, accepted>>

\* the run of the session saves the result of a combination it has not
\* saved before
DoSaveResult ==
    /\ current_test_id = TestId
    /\ Len(save_returned) < MaxSaves
    /\ \E r \in ResultsAt(clock) :
          /\ \A i \in 1 .. Len(save_returned) :
                CombinationOf(save_returned[i].result) # CombinationOf(r)
          /\ SaveResult(r)
    /\ clock' = clock + 1
    /\ sphase' = "saved"
    /\ UNCHANGED <<loaded, n_loaded, deleted, delete_returned, current_test_id>>
    /\ UNCHANGED <<cmpVars, mgrVars, callVars, clVars, runVars, singleVars,
                   fatalAt, utilVars, ovVars, uiVars>>

\* the files json.load accepts
Loadable == {f \in files : f.content # Corrupt}

\* ResultManager.load_test_results(test_id): the content of every *.json
\* file of the directory that parses; [] when the directory does not exist
LoadTestResults ==
    /\ loaded' = IF dir_exists THEN {f.content : f \in Loadable} ELSE {}
    /\ n_loaded' = IF dir_exists THEN Cardinality(Loadable) ELSE 0

\* a load of the session's run
DoLoadTestResults ==
    /\ current_test_id = TestId
    /\ sphase = "saved"
    /\ LoadTestResults
    /\ sphase' = "loaded"
    /\ UNCHANGED <<dir_exists, files, clock, accepted, save_returned, deleted,
                   delete_returned, current_test_id>>
    /\ UNCHANGED <<cmpVars, mgrVars, callVars, clVars, runVars, singleVars,
                   fatalAt, utilVars, ovVars, uiVars>>

\* the lists with the elements of S, each once
Orderings(S) ==
    {f \in [1 .. Cardinality(S) -> S] :
        \A i, j \in 1 .. Cardinality(S) : f[i] = f[j] => i = j}

\* the session state a store action leaves alone
sessionRest == <<matrix, similarity_threshold, rpc, rend, current_test,
                 passed_count, failed_count, skipped_count, results, saved,
                 stop_testing, test_running>>

\* "Keep Partial Results": the results of the current run are loaded into
\* the session
KeepPartialResults ==
    /\ current_test_id = TestId
    /\ sphase \in {"saved", "loaded"}
    /\ LoadTestResults
    /\ test_results' \in Orderings(loaded')
    /\ sphase' = "kept"
    /\ UNCHANGED <<dir_exists, files, clock, accepted, save_returned, deleted,
                   delete_returned, current_test_id>>
    /\ UNCHANGED <<cmpVars, mgrVars, callVars, clVars, sessionRest, singleVars,
                   fatalAt, utilVars, ovVars, uiVars>>

\* ResultManager.delete_test_run(test_id): True after rmtree; False when the
\* directory does not exist and when rmtree raises, having removed some of
\* the files or none
DeleteTestRun ==
    IF dir_exists
    THEN \/ /\ files' = {}
            /\ dir_exists' = FALSE
            /\ delete_returned' = TRUE
            /\ deleted' = TRUE
         \/ /\ files' \in SUBSET files
            /\ delete_returned' = FALSE
            /\ deleted' = TRUE
            /\ UNCHANGED dir_exists
    ELSE /\ delete_returned' = FALSE
         /\ UNCHANGED <<files, dir_exists, deleted>>

\* cleanup_partial_results()
CleanupPartialResults ==
    /\ sphase # "cleaned"
    /\ IF current_test_id # 0
       THEN /\ DeleteTestRun
            /\ current_test_id' = 0
            /\ test_results' = <<>>
       ELSE UNCHANGED <<files, dir_exists, deleted, delete_returned,
                        current_test_id, test_results>>
    /\ sphase' = "cleaned"
    /\ UNCHANGED <<clock, accepted, save_returned, loaded, n_loaded>>
    /\ UNCHANGED <<cmpVars, mgrVars, callVars, clVars, sessionRest, singleVars,
                   fatalAt, utilVars, ovVars, uiVars>>

\* a session whose run has its id and has saved nothing yet
InitStore ==
    /\ InitManager
    /\ InitNoRun
    /\ InitNoCompare
    /\ InitNoUtils
    /\ InitNoOverlays
    /\ dir_exists = FALSE
    /\ files = {}
    /\ clock = 0
    /\ accepted = <<>>
    /\ save_returned = <<>>
    /\ loaded = {}
    /\ n_loaded = 0
    /\ deleted = FALSE
    /\ delete_returned = FALSE
    /\ current_test_id = TestId
    /\ sphase = "none"

NextStore ==
    \/ DoSaveResult
    \/ DoLoadTestResults
    \/ KeepPartialResults
    \/ CleanupPartialResults

SpecStore == InitStore /\ [][NextStore]_vars
\* ---------------------------------------------------------------------------
\* utils.py: sanitize_filename and resize_image_for_display
\* ---------------------------------------------------------------------------

\* longest free part of a file name given to sanitize_filename
MaxLen == 3

\* largest max_width and max_height given to resize_image_for_display
MaxDisplay == 3

\* filename[:100]
FilenameLimit == 100

\* invalid_chars = '<>:"/\\|?*'
InvalidChars == {"<", ">", ":", "\"", "/", "\\", "|", "?", "*"}

\* for char in invalid_chars: filename = filename.replace(char, '_')
ReplaceInvalid(s, invalid) ==
    [i \in 1 .. Len(s) |-> IF s[i] \in invalid THEN "_" ELSE s[i]]

\* s.strip(chars): the characters of chars are removed at both ends
Strip(s, chars) ==
    LET kept  == {i \in 1 .. Len(s) : s[i] \notin chars}
        first == CHOOSE i \in kept : \A j \in kept : i <= j
        last  == CHOOSE i \in kept : \A j \in kept : j <= i
    IN  IF kept = {} THEN <<>> ELSE SubSeq(s, first, last)

\* f"unnamed_{datetime.now().strftime('%Y%m%d_%H%M%S')}", for two moments
UnnamedNames ==
    {<<"u", "n", "n", "a", "m", "e", "d", "_",
       "2", "0", "2", "6", "1", "1", "0", "3", "_", "1", "8", "0", "0", "0", d>> :
        d \in {"0", "1"}}

\* sanitize_filename(filename): the values it can return
SanitizeFilename(filename) ==
    LET cut == Strip(Take(ReplaceInvalid(filename, InvalidChars), FilenameLimit),
                     {".", " "})
    IN  IF cut = <<>> THEN UnnamedNames ELSE {cut}

\* min(width_scale, height_scale, 1.0)
DisplayScale(width, height, max_width, max_height) ==
    LET width_scale  == Rat(max_width, width)
        height_scale == Rat(max_height, height)
        least        == IF RatGE(height_scale, width_scale)
                        THEN width_scale ELSE height_scale
    IN  IF RatGE(least, Rat(1, 1)) THEN Rat(1, 1) ELSE least

\* int(side * scale)
IntTimes(side, scale) == (side * scale.num) \div scale.den

\* Image.resize(size): a size with a side below 1 raises ValueError
ResizeRaises(size) == size.w < 1 \/ size.h < 1

\* resize_image_for_display(image, max_width, max_height): the size of the
\* image it returns
ResizeImageForDisplay(size, max_width, max_height) ==
    LET scale  == DisplayScale(size.w, size.h, max_width, max_height)
        target == [w |-> IntTimes(size.w, scale), h |-> IntTimes(size.h, scale)]
    IN  IF RatGE(scale, Rat(1, 1)) THEN size
        ELSE IF ResizeRaises(target) THEN size
        ELSE target

\* the characters of the file names tried
NameChars == {"a", "_", ".", " ", "*", "/"}

\* the file names tried: short ones, and the same after a run of letters that
\* brings them to the length limit
NameInputs ==
    LET short == UNION {[1 .. n -> NameChars] : n \in 0 .. MaxLen}
        run   == [i \in 1 .. FilenameLimit - 2 |-> "a"]
    IN  short \cup {run \o s : s \in short}

\* the calls of resize_image_for_display tried
SizeInputs ==
    [w : 1 .. MaxSide, h : 1 .. MaxSide,
     max_width : 1 .. MaxDisplay, max_height : 1 .. MaxDisplay]

\* a call of one of the two utilities is about to be made
InitUtils ==
    /\ InitManager
    /\ InitNoRun
    /\ InitNoCompare
    /\ InitNoStore
    /\ InitNoOverlays
    /\ uphase \in {"name", "size"}
    /\ uin \in (IF uphase = "name" THEN NameInputs ELSE SizeInputs)
    /\ uout = <<>>

\* sanitize_filename(uin)
DoSanitizeFilename ==
    /\ uphase = "name"
    /\ uout' \in SanitizeFilename(uin)
    /\ uphase' = "sanitized"
    /\ UNCHANGED uin
    /\ UNCHANGED <<cmpVars, mgrVars, callVars, clVars, runVars, singleVars,
                   fatalAt, storeVars, ovVars, uiVars>>

\* resize_image_for_display(image of uin.w x uin.h, uin.max_width, uin.max_height)
DoResizeImageForDisplay ==
    /\ uphase = "size"
    /\ uout' = ResizeImageForDisplay([w |-> uin.w, h |-> uin.h],
                                     uin.max_width, uin.max_height)
    /\ uphase' = "resized"
    /\ UNCHANGED uin
    /\ UNCHANGED <<cmpVars, mgrVars, callVars, clVars, runVars, singleVars,
                   fatalAt, storeVars, ovVars, uiVars>>

NextUtils == DoSanitizeFilename \/ DoResizeImageForDisplay

SpecUtils == InitUtils /\ [][NextUtils]_vars

(***************************************************************************)
(* BrowserManager.create_context: the options given to new_context.        *)
(***************************************************************************)
\* the least width and height of a desktop viewport
DesktopWidth == 1920
DesktopHeight == 1080

\* the device_scale_factor set by default for desktop contexts
DesktopScaleFactor == 2

\* s.lower(), for the browser and device names tried ("" stands for None)
Lower(s) ==
    CASE s = "Chrome" -> "chrome"
      [] s = "Safari" -> "safari"
      [] s \in {"Firefox", "firefox", "FIREFOX"} -> "firefox"
      [] s = "Desktop" -> "desktop"
      [] s = "Desktop Mac" -> "desktop mac"
      [] s = "Wide DESKTOP" -> "wide desktop"
      [] s = "Tablet" -> "tablet"
      [] s = "Tablet Android" -> "tablet android"
      [] s = "Mobile" -> "mobile"
      [] s = "Mobile Android" -> "mobile android"
      [] s = "Kiosk" -> "kiosk"
      [] OTHER -> s

\* 'desktop' in s, for the lowered names
ContainsDesktop(s) == s \in {"desktop", "desktop mac", "wide desktop"}

\* PLAYWRIGHT_DEVICE_MAP.get(device_name), "" for None
DescriptorNameOf(device_name) ==
    CASE device_name = "Mobile" -> "iPhone 14 Pro"
      [] device_name = "Mobile Android" -> "Pixel 7"
      [] device_name = "Tablet" -> "iPad Pro 11"
      [] device_name = "Tablet Android" -> "Galaxy Tab S7"
      [] OTHER -> ""

\* VIEWPORT_CONFIGS, and a viewport above the desktop size
RegistryViewports ==
    {[width |-> 1920, height |-> 1080], [width |-> 1440, height |-> 900],
     [width |-> 768, height |-> 1024], [width |-> 375, height |-> 667],
     [width |-> 2560, height |-> 1440]}

\* the mobile emulation keys but has_touch
MobileEmulationKeysButTouch ==
    {"isMobile", "is_mobile", "hasTouch", "deviceScaleFactor",
     "device_scale_factor"}

\* the keys Firefox contexts do not take
MobileEmulationKeys ==
    {"isMobile", "is_mobile", "hasTouch", "has_touch", "deviceScaleFactor",
     "device_scale_factor"}

\* a device descriptor of playwright.devices as a dict
DescriptorOptions(d) ==
    ("user_agent" :> d.user_agent) @@ ("viewport" :> d.viewport)
        @@ ("device_scale_factor" :> d.device_scale_factor)
        @@ ("is_mobile" :> d.is_mobile) @@ ("has_touch" :> d.has_touch)
        @@ ("default_browser_type" :> d.default_browser_type)

\* options.pop(k, None) for each k of keys
PopKeys(options, keys) == [k \in DOMAIN options \ keys |-> options[k]]

\* the descriptor is merged: a device name is given, playwright is started,
\* the device map names a descriptor and playwright.devices has it
UsedDescriptor(in) ==
    /\ in.device_name # ""
    /\ in.has_playwright
    /\ DescriptorNameOf(in.device_name) # ""
    /\ in.lookup = "found"

\* a fallback viewport that is the viewport given, for every device
FallbackViewportAsGiven(in) == in.viewport

\* the viewport set explicitly when no descriptor was merged
FallbackViewport(in) ==
    IF ContainsDesktop(Lower(in.device_name))
    THEN [width |-> Max2(in.viewport.width, DesktopWidth),
          height |-> Max2(in.viewport.height, DesktopHeight)]
    ELSE in.viewport

\* context_options of create_context(browser, viewport, device_name,
\* user_agent, browser_name) at the call of browser.new_context
ContextOptions(in) ==
    LET base   == ("ignore_https_errors" :> TRUE) @@ ("java_script_enabled" :> TRUE)
        merged == IF UsedDescriptor(in)
                  THEN DescriptorOptions(in.descriptor) @@ base
                  ELSE base
        agent  == IF in.user_agent # ""
                  THEN ("user_agent" :> in.user_agent) @@ merged
                  ELSE merged
        engine == IF Lower(in.browser_name) = "firefox"
                  THEN PopKeys(agent, MobileEmulationKeys)
                  ELSE IF (in.device_name = "" \/ ContainsDesktop(Lower(in.device_name)))
                          /\ ~UsedDescriptor(in)
                       THEN agent @@ ("device_scale_factor" :> DesktopScaleFactor)
                       ELSE agent
    IN  IF ~UsedDescriptor(in)
        THEN ("viewport" :> FallbackViewport(in)) @@ engine
        ELSE engine

\* the descriptors playwright.devices may hold
Descriptors ==
    [user_agent : {"Mozilla/5.0 (iPhone)"},
     viewport : {[width |-> 393, height |-> 660], [width |-> 834, height |-> 1194]},
     device_scale_factor : {3},
     is_mobile : BOOLEAN,
     has_touch : BOOLEAN,
     default_browser_type : {"webkit"}]

\* the calls of create_context tried: lookup is what playwright.devices.get
\* does for the descriptor name (it finds the descriptor, returns None, or
\* raises)
ContextInputs ==
    [browser_name : {"", "Chrome", "Safari", "Firefox", "firefox", "FIREFOX"},
     device_name : {"", "Desktop", "Desktop Mac", "Wide DESKTOP", "Tablet",
                    "Tablet Android", "Mobile", "Mobile Android", "Kiosk"},
     viewport : RegistryViewports,
     user_agent : {"", "Custom/1.0"},
     has_playwright : BOOLEAN,
     lookup : {"found", "missing", "raise"},
     descriptor : Descriptors]

\* a call of create_context is about to be made
InitContext ==
    /\ InitManager
    /\ InitNoRun
    /\ InitNoCompare
    /\ InitNoStore
    /\ InitNoOverlays
    /\ uphase = "context"
    /\ uin \in ContextInputs
    /\ uout = <<>>

\* create_context(..) up to its call of browser.new_context(**context_options)
DoCreateContext ==
    /\ uphase = "context"
    /\ uout' = ContextOptions(uin)
    /\ uphase' = "created"
    /\ UNCHANGED uin
    /\ UNCHANGED <<cmpVars, mgrVars, callVars, clVars, runVars, singleVars,
                   fatalAt, storeVars, ovVars, uiVars>>

NextContext == DoCreateContext

SpecContext == InitContext /\ [][NextContext]_vars


(***************************************************************************)
(* Claims about the comparison engine (checked under SpecCompare).         *)
(***************************************************************************)

C10_IdenticalImagesMatch ==
    (cphase = "compared" /\ im1 = im2 /\ EffectiveThreshold(cthr) = 95) =>
        /\ RatGE(cres.similarity_score, Rat(999, 10))
        /\ cres.is_match
        /\ cres.diff_image = NoImage

\* create_overlay was called on two RGB images of equal size
OverlaidEqualSizeRGB ==
    /\ cphase = "overlaid"
    /\ im1.mode = "RGB"
    /\ im2.mode = "RGB"
    /\ <<im1.w, im1.h>> = <<im2.w, im2.h>>

\* C11: for two RGB images a and b of equal size, create_overlay(a, b, 0.0)
\* is pixel-identical to b and create_overlay(a, b, 1.0) is pixel-identical
\* to a.
C11_OverlayEndpoints ==
    OverlaidEqualSizeRGB =>
        /\ opacity = 0 => overlay = im2
        /\ opacity = 10 => overlay = im1

\* C11 witness: two different mid-tone RGB images of equal size overlaid at
\* opacity 1.0, the overlay being the first image
C11_Witness ==
    /\ OverlaidEqualSizeRGB
    /\ opacity = 10
    /\ im1.px[<<0, 0>>] = Teal
    /\ im2.px[<<0, 0>>] = Red
    /\ overlay = im1

\* C12: in every result of compare_images a match carries no diff image, and
\* create_difference_image is called exactly when no step raised and the
\* verdict is a mismatch.
C12_DiffOnlyOnMismatch ==
    cphase = "compared" =>
        /\ cres.is_match => cres.diff_image = NoImage
        /\ cres.diff_invoked <=> (~cres.error /\ ~cres.is_match)

\* C12 witness: a comparison without error whose verdict is a mismatch and
\* whose result carries the generated diff image
C12_Witness ==
    /\ cphase = "compared"
    /\ ~cres.error
    /\ ~cres.is_match
    /\ cres.diff_invoked
    /\ cres.diff_image # NoImage

\* C18: compare_images never computes metrics over arrays of different
\* shape: for every pair of input images, of any sizes and colour modes, the
\* two arrays obtained from resize_images_to_match have the same height,
\* width and channel count, so that the shape check of
\* calculate_similarity_metrics never raises.
C18_ReconciledShapesAgree ==
    /\ cphase = "resized" => Shape(rz[1]) = Shape(rz[2])
    /\ cphase = "compared" =>
          LET r == ResizeImagesToMatch(im1, im2)
          IN  Shape(r[1]) = Shape(r[2])

\* the colour painted over the pixels of the mask
Highlight == <<255, 100, 100>>

\* the grayscale value of the absolute difference of the reconciled images
\* at pixel c
GrayDifferenceAt(c) ==
    LET r == ResizeImagesToMatch(im1, im2)
    IN  Gray([k \in 1 .. 3 |-> Abs(r[1].px[c][k] - r[2].px[c][k])])

\* the pixel at c is the first reconciled image's at 70% intensity, cut to
\* an integer
DimmedAt(c) ==
    LET r == ResizeImagesToMatch(im1, im2)
    IN  \A k \in 1 .. 3 :
            /\ 10 * difference.px[c][k] <= 7 * r[1].px[c][k]
            /\ 7 * r[1].px[c][k] <= 10 * difference.px[c][k] + 10

\* create_difference_image has returned an image
DifferenceReturned == cphase = "differenced" /\ difference # NoImage

\* the two inputs have one size and one mode and differ in the pixel at the
\* origin only: a patch of one pixel
DifferOnlyAtOrigin ==
    /\ im1.mode = im2.mode
    /\ <<im1.w, im1.h>> = <<im2.w, im2.h>>
    /\ im1.px[<<0, 0>>] # im2.px[<<0, 0>>]
    /\ \A c \in DOMAIN im1.px : c # <<0, 0>> => im1.px[c] = im2.px[c]

\* C25 (as stated): a pixel of the difference image is (255,100,100) exactly
\* when the grayscale value of the absolute difference there exceeds 30, and
\* is otherwise the first image's pixel at 70% intensity; hence for two images
\* that differ only inside a patch exactly the patch is highlighted.
C25_HighlightIsExactlyThePatch ==
    DifferenceReturned =>
        /\ \A c \in DOMAIN difference.px :
              /\ difference.px[c] = Highlight <=> GrayDifferenceAt(c) > 30
              /\ difference.px[c] # Highlight => DimmedAt(c)
        /\ DifferOnlyAtOrigin =>
              \A c \in DOMAIN difference.px :
                  difference.px[c] = Highlight <=> c = <<0, 0>>

\* C25 (amended): the same for each pixel; for two images that differ only
\* inside a patch nothing outside the patch is highlighted, and a pixel of
\* the patch is highlighted exactly when its grayscale difference exceeds 30.
C25_HighlightIsWithinThePatch ==
    DifferenceReturned =>
        /\ \A c \in DOMAIN difference.px :
              /\ difference.px[c] = Highlight <=> GrayDifferenceAt(c) > 30
              /\ difference.px[c] # Highlight => DimmedAt(c)
        /\ DifferOnlyAtOrigin =>
              /\ \A c \in DOMAIN difference.px :
                    difference.px[c] = Highlight => c = <<0, 0>>
              /\ difference.px[<<0, 0>>] = Highlight <=>
                    GrayDifferenceAt(<<0, 0>>) > 30

\* C25 witness: a red pixel on white against plain white: the pixel is
\* highlighted and its neighbour is white at 70%
C25_Witness ==
    /\ DifferenceReturned
    /\ DifferOnlyAtOrigin
    /\ im1.px[<<0, 0>>] = White
    /\ im2.px[<<0, 0>>] = Red
    /\ difference.px[<<0, 0>>] = Highlight
    /\ difference.px[<<1, 0>>] = <<178, 178, 178>>

\* C26: for equal-size images A and B and every opacity p, each channel of
\* each pixel of create_overlay(A, B, p) is p*A + (1-p)*B of the input
\* pixels, up to integer rounding, and the result has the element-wise
\* maximum of the dimensions of the inputs.
C26_OverlayIsTheAlphaBlend ==
    (cphase = "overlaid" /\ <<im1.w, im1.h>> = <<im2.w, im2.h>>) =>
        /\ overlay.w = Max2(im1.w, im2.w)
        /\ overlay.h = Max2(im1.h, im2.h)
        /\ \A c \in DOMAIN overlay.px : \A k \in 1 .. 3 :
              LET blend10 == opacity * im1.px[c][k] + (10 - opacity) * im2.px[c][k]
              IN  Abs(10 * overlay.px[c][k] - blend10) <= 10

(***************************************************************************)
(* Claims about captures, cleanup and the run loop (checked under SpecRun, *)
(* C7 under SpecConcurrent).                                               *)
(***************************************************************************)
\* a take_screenshot call has returned after it had created its context
ReturnedWithContext(p) == pc[p] = "done" /\ context[p] # 0

CaptureReturnedNone == staging_capture = 0 \/ production_capture = 0

\* run_tests takes the value of run_single_test for the combination in flight
RecordsNow == rpc = "single" /\ rpc' = "loop"

\* C2: when a capture of a combination returns None, run_single_test returns
\* None; run_tests counts the combination as skipped and neither as passed nor
\* as failed, appends and saves nothing for it, and stays in its loop.
C2_CaptureFailureIsSkipped ==
    /\ [](spc = "cleanup" /\ CaptureReturnedNone => result = <<>>)
    /\ [][RecordsNow /\ CaptureReturnedNone =>
             /\ skipped_count' = skipped_count + 1
             /\ passed_count' = passed_count
             /\ failed_count' = failed_count
             /\ results' = results
             /\ saved' = saved
             /\ rend' = "running"
             /\ test_running' = test_running]_vars

\* C2 witness: a combination whose capture returned None was counted as
\* skipped with nothing appended or saved, and the next combination has started
C2_Witness ==
    \E i \in 1 .. Len(outcomes) :
        /\ outcomes[i].capture_none
        /\ outcomes[i].counted = "skipped"
        /\ outcomes[i].appended = 0
        /\ outcomes[i].persisted = 0
        /\ current_test > i
        /\ rpc = "single"

\* C3: once stop_testing is set no combination is started, and outside a
\* combination in flight no capture is called and nothing is appended or saved;
\* a combination in flight is not abandoned: run_tests leaves it only by
\* recording its result, so a stopped run has recorded every combination it
\* started and has combinations left.
C3_StopBetweenCombinations ==
    /\ [][stop_testing => current_test' = current_test]_vars
    /\ [][stop_testing /\ rpc # "single" =>
             /\ calls' = calls
             /\ results' = results
             /\ saved' = saved]_vars
    /\ [][rpc = "single" =>
             \/ rpc' = "single"
             \/ rpc' = "loop" /\ Len(outcomes') = current_test]_vars
    /\ [](rend = "stopped" =>
             /\ stop_testing
             /\ current_test < Len(matrix)
             /\ Len(outcomes) = current_test
             /\ passed_count + failed_count + skipped_count = current_test)

\* C3 witness: a run stopped after its first combination, which was in flight
\* or over when the flag was set and has been recorded; the second never
\* started
C3_Witness ==
    /\ rend = "stopped"
    /\ current_test = 1
    /\ Len(matrix) = 2
    /\ Len(outcomes) = 1
    /\ calls[1] = 2

\* a step of compare_images raises for the two captures in flight
CompareStepRaises ==
    /\ ~CaptureReturnedNone
    /\ LET r == ResizeImagesToMatch(CaptureImages[staging_capture],
                                    CaptureImages[production_capture])
       IN  CalculateSimilarityMetrics(r[1], r[2], NaNVal, 0).raise

C7_AtMostOneLaunchPerName ==
    /\ \A name \in BrowserNames :
          Cardinality({i \in 1 .. Len(launched) : launched[i].name = name}) <= 1
    /\ \A p, q \in Callers :
          (bname[p] = bname[q] /\ browser[p] # 0 /\ browser[q] # 0)
              => browser[p] = browser[q]
    /\ \A i \in 1 .. Len(launched) :
          launched[i].h \in running =>
              /\ HasBrowser(launched[i].name)
              /\ BrowserHandle(launched[i].name) = launched[i].h

\* C8: once both launches of a browser have failed in a combination, no later
\* combination of the run launches that browser, and every later combination
\* that uses it has no result.
C8_FailedBrowserStaysFailed ==
    \A b \in BrowserNames :
        fatalAt[b] # 0 =>
            /\ \A p \in Callers :
                  (pc[p] \in {"launch_full", "launch_minimal"} /\ bname[p] = b)
                      => current_test <= fatalAt[b]
            /\ \A i \in 1 .. Len(outcomes) :
                  (i > fatalAt[b] /\ matrix[i].browser = b)
                      => outcomes[i].counted = "skipped"

\* C9: when cleanup() returns, every browser the manager launched is closed,
\* the driver is stopped, and the manager state is reset; run_single_test
\* returns only after cleanup() has returned.
C9_CleanupLeavesNothingRunning ==
    /\ clpc = "returned" =>
          /\ running = {}
          /\ drivers = {}
          /\ browsers = <<>>
          /\ contexts = {}
          /\ playwright = 0
    /\ spc = "cleanup" => clpc # "idle"

\* the combinations counted so far
Counted == passed_count + failed_count + skipped_count

\* the values a field takes in the matrix
MatrixValues(Field(_)) == {Field(matrix[i]) : i \in 1 .. Len(matrix)}
TestNameOf(combo) == combo.test_name
BrowserOf(combo) == combo.browser
DeviceOf(combo) == combo.device

\* C13: the matrix is the cross product, each of its combinations once; the
\* combinations are taken in turn, each at most once; recording a combination
\* adds one to exactly one of the three counters, so between combinations the
\* counters sum to the number started (one less while a combination is under
\* way or when it ended the run by an exception), and to the size of the
\* cross product when the run completes without stop.
C13_EveryCombinationCountedOnce ==
    /\ [](/\ \A i, j \in 1 .. Len(matrix) : matrix[i] = matrix[j] => i = j
          /\ Len(matrix) = Cardinality(MatrixValues(TestNameOf))
                             * Cardinality(MatrixValues(BrowserOf))
                             * Cardinality(MatrixValues(DeviceOf)))
    /\ [](/\ Len(outcomes) <= current_test
          /\ \A i \in 1 .. Len(outcomes) : outcomes[i].combo = matrix[i])
    /\ []((rpc # "single" /\ rend # "raised") => Counted = current_test)
    /\ []((rpc = "single" \/ rend = "raised") => Counted = current_test - 1)
    /\ [](rend = "completed" => Counted = Len(matrix))
    /\ [][RecordsNow =>
             /\ Counted' = Counted + 1
             /\ passed_count' >= passed_count
             /\ failed_count' >= failed_count
             /\ skipped_count' >= skipped_count]_vars

\* C13 witness: a run of two combinations completed without stop, one of them
\* counted as passed and the other as skipped
C13_Witness ==
    /\ rend = "completed"
    /\ ~stop_testing
    /\ Len(matrix) = 2
    /\ passed_count = 1
    /\ skipped_count = 1
    /\ failed_count = 0

\* self.browsers maps name to handle h after the step
CachedAfter(name, h) ==
    \E i \in 1 .. Len(browsers') :
        browsers'[i].name = name /\ browsers'[i].h = h

\* C19: in get_browser a launch with the full flag set that raises is
\* followed by one launch with the minimal flag set, which is attempted only
\* then; when the retry returns, its handle is cached and returned; when it
\* raises, the call fails (take_screenshot returns None), no further launch
\* is attempted within the call and the cache is left as it was.
C19_OneRetryWithMinimalFlags ==
    /\ [][\A p \in Callers :
            (pc[p] = "launch_full" /\ pc'[p] # "launch_full") =>
                \/ /\ pc'[p] = "new_context"
                   /\ CachedAfter(bname[p], browser'[p])
                \/ /\ pc'[p] = "launch_minimal"
                   /\ browsers' = browsers
                   /\ nLaunched' = nLaunched]_vars
    /\ [][\A p \in Callers :
            (pc'[p] = "launch_minimal" /\ pc[p] # "launch_minimal") =>
                pc[p] = "launch_full"]_vars
    /\ [][\A p \in Callers :
            (pc[p] = "launch_minimal" /\ pc'[p] # "launch_minimal") =>
                \/ /\ pc'[p] = "new_context"
                   /\ nLaunched' = nLaunched + 1
                   /\ browser'[p] = nLaunched'
                   /\ CachedAfter(bname[p], browser'[p])
                \/ /\ pc'[p] = "done"
                   /\ ret'[p] = "None"
                   /\ browsers' = browsers
                   /\ nLaunched' = nLaunched]_vars

\* C19 witness: a call has ended because both launches raised: the driver
\* runs, the call holds neither browser nor context, and the name is not in
\* the cache
C19_Witness ==
    \E p \in Callers :
        /\ pc[p] = "done"
        /\ ret[p] = "None"
        /\ playwright # 0
        /\ browser[p] = 0
        /\ context[p] = 0
        /\ fatalAt[bname[p]] # 0
        /\ ~HasBrowser(bname[p])

\* C20: take_screenshot navigates with 'domcontentloaded' first; the
\* navigation with 'load' is attempted only when the first one raised, and
\* once; when it raises too the call goes to its except branch and returns
\* None with no screenshot taken and no metrics collected, and no later step
\* (fonts, sleep, overlays, metrics, screenshot) runs.
C20_NavigationFallsBackOnce ==
    /\ [][\A p \in Callers :
            (pc[p] = "goto_domcontentloaded" /\ pc'[p] # pc[p]) =>
                pc'[p] \in {"fonts", "goto_load"}]_vars
    /\ [][\A p \in Callers :
            (pc'[p] = "goto_load" /\ pc[p] # "goto_load") =>
                pc[p] = "goto_domcontentloaded"]_vars
    /\ [][\A p \in Callers :
            (pc'[p] = "fonts" /\ pc[p] # "fonts") =>
                pc[p] \in {"goto_domcontentloaded", "goto_load"}]_vars
    /\ [][\A p \in Callers :
            (pc[p] = "goto_load" /\ pc'[p] # "goto_load") =>
                \/ pc'[p] = "fonts"
                \/ /\ pc'[p] = "close_in_except"
                   /\ image'[p] = 0
                   /\ metrics'[p] = FALSE
                   /\ ret'[p] = "pending"]_vars
    /\ [][\A p \in Callers :
            (pc[p] = "close_in_except" /\ pc'[p] # "close_in_except") =>
                /\ pc'[p] = "done"
                /\ ret'[p] = "None"
                /\ image'[p] = image[p]
                /\ metrics'[p] = metrics[p]]_vars

\* C20 witness: the first navigation has raised and the fallback is in
\* progress, with no screenshot and no metrics
C20_Witness ==
    \E p \in Callers :
        /\ pc[p] = "goto_load"
        /\ image[p] = 0
        /\ metrics[p] = FALSE

\* C22: a take_screenshot call that reaches context construction creates one
\* new context, which no call has held before, and keeps it until the call
\* is over; the manager's contexts map is empty in every reachable state; two
\* captures in progress never hold the same context, even on one browser.
C22_OneFreshContextPerCapture ==
    /\ [](contexts = {})
    /\ [][\A p \in Callers :
            context'[p] # context[p] =>
                \/ /\ context'[p] = 0
                   /\ calls'[p] = calls[p] + 1
                \/ /\ context[p] = 0
                   /\ pc[p] = "new_context"
                   /\ pc'[p] = "new_page"
                   /\ nCtx' = nCtx + 1
                   /\ context'[p] = nCtx']_vars
    /\ [][nCtx' # nCtx =>
            \E p \in Callers : pc[p] = "new_context" /\ context'[p] = nCtx']_vars
    /\ [](\A p, q \in Callers :
            (p # q /\ context[p] # 0 /\ context[q] # 0) =>
                context[p] # context[q])

\* C22 witness: two captures are in progress on the same browser process,
\* each with a context of its own
C22_Witness ==
    /\ pc[1] = "screenshot"
    /\ pc[2] = "screenshot"
    /\ browser[1] = browser[2]
    /\ browser[1] # 0
    /\ context[1] # 0
    /\ context[2] # 0

\* C27: take_screenshot returns an image only after its close of the context
\* returned without error; when that close raises, the screenshot having
\* been taken, the close is attempted a second time and the call returns
\* None; run_single_test then has no capture and the combination has no
\* result: it is counted as skipped.
C27_ImageOnlyAfterCleanClose ==
    /\ [](\A p \in Callers :
            (pc[p] = "done" /\ ret[p] = "image") =>
                /\ closeTried[p] = 1
                /\ closeRaised[p] = 0
                /\ context[p] \notin openCtx)
    /\ [][\A p \in Callers :
            (pc[p] = "close" /\ closeRaised'[p] # closeRaised[p]) =>
                /\ pc'[p] = "close_in_except"
                /\ image[p] # 0
                /\ image'[p] = image[p]
                /\ ret'[p] = "pending"]_vars
    /\ [][\A p \in Callers :
            (pc[p] = "close_in_except" /\ pc'[p] # "close_in_except") =>
                /\ pc'[p] = "done"
                /\ closeTried'[p] = closeTried[p] + 1
                /\ ret'[p] = "None"]_vars
    /\ [](\A p \in Callers :
            (pc[p] = "done" /\ ret[p] = "None" /\ image[p] # 0) =>
                /\ closeTried[p] = 2
                /\ closeRaised[p] >= 1)
    /\ [][(spc = "staging" /\ spc' = "production" /\ ret[1] = "None") =>
            staging_capture' = 0]_vars
    /\ [][(spc = "production" /\ spc' = "cleanup" /\ ret[1] = "None") =>
            /\ production_capture' = 0
            /\ result' = <<>>]_vars
    /\ [](\A i \in 1 .. Len(outcomes) :
            outcomes[i].capture_none =>
                /\ outcomes[i].counted = "skipped"
                /\ outcomes[i].appended = 0)

\* C27 witness: the staging capture of a combination has returned None after
\* two closes, the first of which raised when the screenshot had been taken
C27_Witness ==
    /\ spc = "staging"
    /\ pc[1] = "done"
    /\ ret[1] = "None"
    /\ image[1] # 0
    /\ closeTried[1] = 2
    /\ closeRaised[1] >= 1

\* C28: within a combination run_single_test makes its two captures one after
\* the other on one BrowserManager, staging first; the production capture is
\* called whatever the staging capture returned; the comparison is made, and
\* a result built, only when both captures returned an image; and the
\* manager launches at most one browser for the combination, the production
\* capture taking the cached one.
C28_TwoCapturesOnOneManager ==
    /\ [][(spc' = "production" /\ spc # "production") =>
            /\ spc = "staging"
            /\ pc[1] = "done"
            /\ calls'[1] = calls[1] + 1
            /\ ret'[1] = "pending"
            /\ pc'[1] \notin {"idle", "done"}
            /\ UNCHANGED <<playwright, browsers, nDrivers, drivers, nLaunched,
                           launched, running>>]_vars
    /\ [][(spc = "staging" /\ spc' # "staging") => spc' = "production"]_vars
    /\ [](spc = "staging" => (production_capture = 0 /\ result = <<>>))
    /\ [][(spc = "production" /\ spc' # "production") =>
            /\ spc' = "cleanup"
            /\ pc[1] = "done"
            /\ production_capture' # 0 <=> ret[1] = "image"
            /\ result' # <<>> <=>
                   (staging_capture # 0 /\ production_capture' # 0)]_vars
    /\ [][(spc = "production" /\ HasBrowser(bname[1])) =>
            /\ nLaunched' = nLaunched
            /\ (browser'[1] # browser[1] =>
                    browser'[1] \in {0, BrowserHandle(bname[1])})]_vars
    /\ [][(rpc = "single" /\ rpc' = "single") => nLaunched' >= nLaunched]_vars
    /\ [](rpc = "single" => (nLaunched <= 1 /\ nDrivers <= 1))

\* C28 witness: the staging capture launched the browser and returned None,
\* the production capture has been made with that browser and returned an
\* image
C28_Witness ==
    /\ spc = "production"
    /\ staging_capture = 0
    /\ pc[1] = "done"
    /\ ret[1] = "image"
    /\ calls[1] >= 2
    /\ nLaunched = 1

\* C29: run_tests hands each result to save_result in the step that appends
\* it to the local list, right after its combination and before the loop
\* comes back to the stop check, under the test id it stored in
\* current_test_id; the session's test_results changes only when the run
\* completes, where it becomes the local list, and the stop path leaves it as
\* it was: after a stop the results of the finished combinations are in the
\* store only.
C29_SavedAtOnceSessionOnlyAtCompletion ==
    /\ [][results' # results =>
            /\ rpc = "single"
            /\ rpc' = "loop"
            /\ result # <<>>
            /\ results' = Append(results, result[1])
            /\ saved' = Append(saved, result[1])]_vars
    /\ [][saved' # saved => results' # results]_vars
    /\ []((rpc = "loop" \/ rpc = "returned") => saved = results)
    /\ [](saved # <<>> => current_test_id = TestId)
    /\ [][test_results' # test_results =>
            /\ rpc = "loop"
            /\ rend' = "completed"
            /\ current_test = Len(matrix)
            /\ test_results' = results]_vars
    /\ [][(rpc # "returned" /\ rpc' = "returned" /\ rend' = "stopped") =>
            /\ stop_testing
            /\ test_results' = test_results
            /\ saved' = saved]_vars
    /\ [](rend = "stopped" => Len(test_results) = 0)

\* C29 witness: the run was stopped after a combination that produced a
\* result: the result has been saved and the session's list is empty
C29_Witness ==
    /\ rpc = "returned"
    /\ rend = "stopped"
    /\ Len(saved) >= 1
    /\ saved = results
    /\ Len(test_results) = 0

NamedMetadata(m) ==
    [test_name |-> m.test_name, browser |-> m.browser, device |-> m.device,
     staging_url |-> m.staging_url, production_url |-> m.production_url,
     similarity_score |-> m.similarity_score, is_match |-> m.is_match,
     timestamp |-> m.timestamp]

\* C14: a load_test_results of the run, with no deletion in between, returns
\* every record for which save_result returned True, its metadata unchanged,
\* and as many records as there were such saves: no save of the run replaces
\* the record of another.
C14_AcceptedRecordsAreLoaded ==
    (sphase = "loaded" /\ ~deleted) =>
        /\ \A i \in 1 .. Len(accepted) :
              \E m \in loaded : NamedMetadata(m) = NamedMetadata(accepted[i])
        /\ n_loaded = Len(accepted)

\* C17: once cleanup_partial_results has returned for a session with a
\* current test id, no stored result of that run is left in the results
\* directory, current_test_id is None and test_results is empty; the session
\* is cleared only when the run has been deleted.
C17_CleanupDeletesTheRun ==
    (sphase = "cleaned" /\ deleted) =>
        /\ files = {}
        /\ current_test_id = 0
        /\ test_results = <<>>

(***************************************************************************)
(* Claims about the utilities (checked under SpecUtils)                    *)
(***************************************************************************)

\* C15: sanitize_filename returns a non-empty string of at most 100
\* characters without any of < > : " / \ | ? *; each such character of the
\* input has become one underscore and the other characters are kept in
\* their order, up to the cut at the length limit and the trimming of
\* trailing dots and spaces.
C15_SanitizeFilenameContract ==
    uphase = "sanitized" =>
        LET expected == RStrip(Take(ReplaceInvalid(uin, InvalidChars), FilenameLimit),
                               {".", " "})
        IN  /\ Len(uout) >= 1
            /\ Len(uout) <= FilenameLimit
            /\ \A i \in 1 .. Len(uout) : uout[i] \notin InvalidChars
            /\ expected # <<>> => uout = expected

\* C16: resize_image_for_display returns an image within max_width x
\* max_height, never larger than its input, the input itself when that fits,
\* and with both sides scaled by min(max_width/w, max_height/h) and truncated.
C16_ResizeForDisplayFits ==
    uphase = "resized" =>
        LET fits  == uin.w <= uin.max_width /\ uin.h <= uin.max_height
            scale == DisplayScale(uin.w, uin.h, uin.max_width, uin.max_height)
        IN  /\ uout.w <= uin.max_width
            /\ uout.h <= uin.max_height
            /\ uout.w <= uin.w
            /\ uout.h <= uin.h
            /\ fits => uout = [w |-> uin.w, h |-> uin.h]
            /\ ~fits => /\ uout.w = IntTimes(uin.w, scale)
                        /\ uout.h = IntTimes(uin.h, scale)

(***************************************************************************)
(* Claims about the best-effort steps of a capture (checked under          *)
(* SpecOverlays).                                                          *)
(***************************************************************************)
\* the selectors, then the buttons, in list order
AllAttempts == OverlaySelectors \o AcceptButtons

\* C21: a failure of the font wait, of a selector attempt, of a button click
\* or of the metrics collection never fails the capture: the call goes on to
\* the next step, every selector and button is attempted in list order
\* whatever failed before, the screenshot is taken after them, and a capture
\* without metrics returns its image with empty metrics.
C21_BestEffortStepsNeverFailTheCapture ==
    /\ [][pc[1] = "fonts" => pc'[1] \in {"fonts", "sleep"}]_vars
    /\ [][pc[1] = "overlays" => pc'[1] \in {"overlays", "metrics"}]_vars
    /\ [][pc[1] = "metrics" => pc'[1] \in {"metrics", "screenshot"}]_vars
    /\ [](pc[1] = "overlays" /\ ovstage \in {"wait", "hide", "click", "pause"} =>
             /\ Len(attempted) <= Len(AllAttempts)
             /\ attempted = SubSeq(AllAttempts, 1, Len(attempted)))
    /\ [](pc[1] \in {"metrics", "screenshot", "close"} =>
             /\ ovstage = "returned"
             /\ attempted = AllAttempts)
    /\ [](pc[1] = "done" /\ ret[1] = "image" =>
             /\ attempted = AllAttempts
             /\ ReturnedValue(1).image # 0
             /\ ~metrics[1] => ReturnedValue(1).metrics = "empty")

\* C21 witness: a capture in which every selector attempt and every click
\* raised and no metrics were collected has returned its image
C21_Witness ==
    /\ pc[1] = "done"
    /\ ret[1] = "image"
    /\ ~metrics[1]
    /\ ovstage = "returned"
    /\ ovfailed = {AllAttempts[i] : i \in 1 .. Len(AllAttempts)}

(***************************************************************************)
(* Claims about create_context (checked under SpecContext).                *)
(***************************************************************************)
\* the is-mobile, has-touch and device-scale-factor fields, in the spelling
\* of the Python and of the JavaScript API
MobileFields ==
    {"is_mobile", "has_touch", "device_scale_factor", "isMobile", "hasTouch",
     "deviceScaleFactor"}

\* create_context was called for Firefox, in any spelling
CreatedForFirefox == uphase = "created" /\ Lower(uin.browser_name) = "firefox"

\* create_context was called for another browser and merged a descriptor
CreatedWithDescriptorElsewhere ==
    /\ uphase = "created"
    /\ Lower(uin.browser_name) # "firefox"
    /\ UsedDescriptor(uin)

C24_ViewportOfTheContext ==
    uphase = "created" =>
        LET desktop == ContainsDesktop(Lower(uin.device_name))
            w == uin.viewport.width
            h == uin.viewport.height
        IN  /\ (~UsedDescriptor(uin) /\ desktop) =>
                  /\ uout["viewport"].width = (IF w > 1920 THEN w ELSE 1920)
                  /\ uout["viewport"].height = (IF h > 1080 THEN h ELSE 1080)
                  /\ uout["viewport"].width >= 1920
                  /\ uout["viewport"].height >= 1080
            /\ (~UsedDescriptor(uin) /\ ~desktop) =>
                  uout["viewport"] = uin.viewport
            /\ UsedDescriptor(uin) =>
                  uout["viewport"] = uin.descriptor.viewport

\* C24 witness: the context of 'Desktop Mac', whose registry viewport is
\* 1440x900, has the viewport 1920x1080
C24_Witness ==
    /\ uphase = "created"
    /\ uin.device_name = "Desktop Mac"
    /\ uin.viewport = [width |-> 1440, height |-> 900]
    /\ uout["viewport"] = [width |-> 1920, height |-> 1080]

====
